---- MODULE Spec2Model ----
(***************************************************************************)
(* A model of the option strategy advisor of emotionless_options            *)
(* (src/emotionless_options/src/analysis/strategy_advisor.py), of the       *)
(* Greeks and volatility calculators, the retry wrapper and the input      *)
(* checks of its scraper                                                   *)
(* (src/emotionless_options/src/scrapers/options_scraper.py) and of its    *)
(* configuration singleton (src/emotionless_options/src/utils/config.py).  *)
(*                                                                         *)
(* Python values are tagged records: the field t is the dynamic type.      *)
(*   "num"     a finite number, the exact rational n/d (d > 0, lowest      *)
(*             terms); ints and floats are not told apart                  *)
(*   "inf", "ninf", "nan"   the three non-finite floats                    *)
(*   "str"     a string s                                                  *)
(*   "none"    None                                                        *)
(*   "dict"    a mapping; a key the mapping lacks holds Missing            *)
(*   "missing" the absence of a key (never a value a caller sees)          *)
(*   "object"  an instance of a class                                      *)
(*   "raise"   an exception in flight: every operation that consumes it    *)
(*             yields it again, the enclosing try/except decides           *)
(* Inputs are drawn from small-denominator rationals, on which the float   *)
(* arithmetic of the source and the exact arithmetic below order every     *)
(* result the same way against the thresholds of the code.                 *)
(***************************************************************************)
EXTENDS Integers, Sequences, FiniteSets, TLC

\* pc, op, arg, ret: the call in progress, its arguments and its result;
\* strategies, thresholds: the advisor's fields; _instance, _config: the
\* class attributes of Config; history: an earlier call that is remembered,
\* with its outcome; locals: the local variables a call leaves behind for
\* inspection
VARIABLES pc, op, arg, ret, strategies, thresholds, _instance, _config,
          history, locals

vars == <<pc, op, arg, ret, strategies, thresholds, _instance, _config,
          history, locals>>

---------------------------------------------------------------------------
(* Numbers *)

Abs(i) == IF i < 0 THEN -i ELSE i

RECURSIVE GCD(_, _)
GCD(a, b) == IF b = 0 THEN a ELSE GCD(b, a % b)

Rat(n, d) ==
    LET g == GCD(Abs(n), Abs(d))
        s == IF d < 0 THEN -1 ELSE 1
    IN  [t |-> "num", n |-> (s * n) \div g, d |-> (s * d) \div g]

Num(n) == [t |-> "num", n |-> n, d |-> 1]
Inf == [t |-> "inf"]
NegInf == [t |-> "ninf"]
NaN == [t |-> "nan"]
Str(s) == [t |-> "str", s |-> s]
NoneV == [t |-> "none"]
Missing == [t |-> "missing"]
Raise == [t |-> "raise"]

IsNumeric(v) == v.t \in {"num", "inf", "ninf", "nan"}
IsFinite(v) == v.t = "num"

\* -1, 0 or 1: the sign of a numeric value other than NaN
Sign(v) ==
    CASE v.t = "inf" -> 1
      [] v.t = "ninf" -> -1
      [] OTHER -> IF v.n > 0 THEN 1 ELSE IF v.n < 0 THEN -1 ELSE 0

Signed(s) == IF s > 0 THEN Inf ELSE IF s < 0 THEN NegInf ELSE NaN

\* a + b: numbers add, strings concatenate, anything else is a TypeError
PyAdd(a, b) ==
    IF a.t = "str" /\ b.t = "str" THEN Str(a.s \o b.s)
    ELSE IF ~(IsNumeric(a) /\ IsNumeric(b)) THEN Raise
    ELSE IF a.t = "nan" \/ b.t = "nan" THEN NaN
    ELSE IF IsFinite(a) /\ IsFinite(b)
         THEN LET g == GCD(a.d, b.d)
              IN  Rat(a.n * (b.d \div g) + b.n * (a.d \div g), (a.d \div g) * b.d)
    ELSE IF IsFinite(a) THEN b
    ELSE IF IsFinite(b) THEN a
    ELSE IF a.t = b.t THEN a ELSE NaN

PyNeg(a) ==
    CASE a.t = "num" -> Rat(-a.n, a.d)
      [] a.t = "inf" -> NegInf
      [] a.t = "ninf" -> Inf
      [] a.t = "nan" -> NaN
      [] OTHER -> Raise

\* a - b: defined on numbers only
PySub(a, b) ==
    IF IsNumeric(a) /\ IsNumeric(b) THEN PyAdd(a, PyNeg(b)) ELSE Raise

\* a * b on numbers: inf * 0 is NaN
PyMul(a, b) ==
    IF ~(IsNumeric(a) /\ IsNumeric(b)) THEN Raise
    ELSE IF a.t = "nan" \/ b.t = "nan" THEN NaN
    ELSE IF IsFinite(a) /\ IsFinite(b)
         THEN LET g == GCD(Abs(a.n), b.d)
                  h == GCD(Abs(b.n), a.d)
              IN  Rat((a.n \div g) * (b.n \div h), (a.d \div h) * (b.d \div g))
    ELSE Signed(Sign(a) * Sign(b))

\* a / b on numbers: a zero divisor is a ZeroDivisionError
PyDiv(a, b) ==
    IF ~(IsNumeric(a) /\ IsNumeric(b)) THEN Raise
    ELSE IF IsFinite(b) /\ b.n = 0 THEN Raise
    ELSE IF a.t = "nan" \/ b.t = "nan" THEN NaN
    ELSE IF IsFinite(a) /\ IsFinite(b)
         THEN LET g == GCD(Abs(a.n), Abs(b.n))
                  h == GCD(a.d, b.d)
              IN  Rat((a.n \div g) * (b.d \div h), (a.d \div h) * (b.n \div g))
    ELSE IF IsFinite(a) THEN Num(0)
    ELSE IF IsFinite(b) THEN Signed(Sign(a) * Sign(b))
    ELSE NaN

PyAbs(a) ==
    CASE a.t = "num" -> Rat(Abs(a.n), a.d)
      [] a.t \in {"inf", "ninf"} -> Inf
      [] a.t = "nan" -> NaN
      [] OTHER -> Raise

\* a > b between numbers: every comparison with NaN is false
Gt(a, b) ==
    CASE a.t = "nan" \/ b.t = "nan" -> FALSE
      [] a.t = "inf" -> b.t # "inf"
      [] a.t = "ninf" -> FALSE
      [] b.t = "inf" -> FALSE
      [] b.t = "ninf" -> TRUE
      [] OTHER -> LET g == GCD(a.d, b.d)
                  IN  a.n * (b.d \div g) > b.n * (a.d \div g)

Lt(a, b) == Gt(b, a)

\* int(x) of a finite number: truncation toward zero
PyInt(a) == IF a.n >= 0 THEN a.n \div a.d ELSE -((-a.n) \div a.d)

\* min(a, b) as the builtin computes it: b if b < a else a
PyMin(a, b) == IF Lt(b, a) THEN b ELSE a

---------------------------------------------------------------------------
(* Mappings *)

\* container[key]: KeyError on a missing key, TypeError on a non-mapping
Item(c, k) ==
    IF c.t # "dict" THEN Raise
    ELSE IF c[k].t = "missing" THEN Raise
    ELSE c[k]

\* container.get(key, default): AttributeError on a non-mapping
Get(c, k, default) ==
    IF c.t # "dict" THEN Raise
    ELSE IF c[k].t = "missing" THEN default
    ELSE c[k]

\* key in container
HasKey(c, k) == c.t = "dict" /\ c[k].t # "missing"

\* not x, for None and mappings: an empty mapping is falsy
Falsy(c) ==
    \/ c.t = "none"
    \/ c.t = "dict" /\ \A k \in DOMAIN c \ {"t"} : c[k].t = "missing"

---------------------------------------------------------------------------
(* OptionStrategyAdvisor *)

\* self.strategies, as __init__ builds it
StrategyTable ==
    [bullish |-> <<"long_call", "bull_call_spread", "diagonal_spread">>,
     bearish |-> <<"long_put", "bear_put_spread", "ratio_backspread">>,
     neutral |-> <<"iron_condor", "short_straddle", "short_strangle">>]

\* the four limits __init__ stores, at their defaults
Thresholds ==
    [min_days_to_expiry |-> 7, max_days_to_expiry |-> 45,
     min_iv_percentile |-> 20, max_iv_percentile |-> 80]

\* the shapes of the mappings the advisor reads, with every key absent
EmptyWindow ==
    [t |-> "dict", start_price |-> Missing, end_price |-> Missing,
     volatility |-> Missing]
EmptyHist ==
    ("t" :> "dict") @@ ("5d" :> Missing) @@ ("1mo" :> Missing) @@ ("3mo" :> Missing)
EmptyUnderlying ==
    [t |-> "dict", historical_data |-> Missing, current_price |-> Missing,
     expected_move |-> Missing]
EmptyGreeks == [t |-> "dict", delta |-> Missing]
\* the record calculate_greeks returns when it fails
AllZeroGreeks ==
    [t |-> "dict", delta |-> Num(0), gamma |-> Num(0), theta |-> Num(0),
     vega |-> Num(0), rho |-> Num(0)]
EmptyOption ==
    [t |-> "dict", option_type |-> Missing, strike |-> Missing,
     lastPrice |-> Missing, expiration |-> Missing, greeks |-> Missing]
EmptyVol == [t |-> "dict", iv_percentile |-> Missing]
EmptyOptions ==
    [t |-> "dict", underlying_data |-> Missing, option_data |-> Missing,
     volatility_metrics |-> Missing, days_to_expiry |-> Missing]

\* the momentum thresholds of analyze_market_conditions
Momentum5dThreshold == Rat(2, 100)
\* a slip: the 5-day threshold pasted for the one-month window
Momentum1moThresholdPasted == Rat(2, 100)
Momentum1moThreshold == Rat(5, 100)

\* (end_price - start_price) / start_price of one window of hist_data
Momentum(hist_data, window) ==
    LET w == Item(hist_data, window)
    IN  PyDiv(PySub(Item(w, "end_price"), Item(w, "start_price")),
              Item(w, "start_price"))

\* the body of analyze_market_conditions inside its try: the bias, or "raise"
AnalyzeBody(underlying_data) ==
    IF Falsy(underlying_data) \/ ~HasKey(underlying_data, "historical_data")
    THEN "neutral"
    ELSE LET hist_data == Item(underlying_data, "historical_data")
             momentum_5d == Momentum(hist_data, "5d")
             momentum_1mo == Momentum(hist_data, "1mo")
             vol_trend == PySub(Item(Item(hist_data, "1mo"), "volatility"),
                                Item(Item(hist_data, "3mo"), "volatility"))
             expected_move == Get(underlying_data, "expected_move", Num(0))
         IN  IF \/ momentum_5d.t = "raise" \/ momentum_1mo.t = "raise"
                \/ vol_trend.t = "raise" \/ expected_move.t = "raise"
             THEN "raise"
             ELSE IF /\ Gt(momentum_5d, Momentum5dThreshold)
                     /\ Gt(momentum_1mo, Momentum1moThreshold)
             THEN "bullish"
             ELSE IF /\ Lt(momentum_5d, PyNeg(Momentum5dThreshold))
                     /\ Lt(momentum_1mo, PyNeg(Momentum1moThreshold))
             THEN "bearish"
             ELSE "neutral"

\* a slip: no except clause, the exception reaches the caller
AnalyzeExceptReraise(bias) == bias

\* the except clause of analyze_market_conditions
AnalyzeExcept(bias) == IF bias = "raise" THEN "neutral" ELSE bias

analyze_market_conditions(underlying_data) ==
    AnalyzeExcept(AnalyzeBody(underlying_data))

_get_default_risk_metrics ==
    [t |-> "dict", max_profit |-> Num(0), max_loss |-> Num(0),
     breakeven |-> Num(0), prob_profit |-> Num(0),
     risk_adjusted_return |-> Num(0)]

IsCall(option_data) ==
    option_data.option_type.t = "str" /\ option_data.option_type.s = "call"

\* a slip: the premium not taken off the profit of a put
MaxProfitGross(option_data, max_loss) ==
    IF IsCall(option_data) THEN Inf
    ELSE Get(option_data, "strike", Num(0))

\* max_profit of the position: unlimited for a call, strike - premium otherwise
MaxProfit(option_data, max_loss) ==
    IF IsCall(option_data) THEN Inf
    ELSE PySub(Get(option_data, "strike", Num(0)), max_loss)

\* a slip: the put's breakeven pasted into the call branch
BreakevenPasted(option_data, max_loss) ==
    PySub(Get(option_data, "strike", Num(0)), max_loss)

Breakeven(option_data, max_loss) ==
    IF IsCall(option_data) THEN PyAdd(Get(option_data, "strike", Num(0)), max_loss)
    ELSE PySub(Get(option_data, "strike", Num(0)), max_loss)

\* a slip: an absent delta read as 1
ProbProfitDeltaOne(option_data) ==
    LET greeks == Get(option_data, "greeks", EmptyGreeks)
        delta == Get(greeks, "delta", Num(1))
    IN  PySub(Num(1), PyAbs(delta))

\* a slip: abs() left out
ProbProfitSigned(option_data) ==
    LET greeks == Get(option_data, "greeks", EmptyGreeks)
        delta == Get(greeks, "delta", Num(0))
    IN  PySub(Num(1), delta)

\* prob_profit = 1 - abs(delta), delta read from the greeks entry
ProbProfit(option_data) ==
    LET greeks == Get(option_data, "greeks", EmptyGreeks)
        delta == Get(greeks, "delta", Num(0))
    IN  PySub(Num(1), PyAbs(delta))

\* a slip: the loss not taken off the profit in expected_return
RiskAdjustedReturnGross(max_profit, max_loss, prob_profit) ==
    LET expected_return == PyMul(max_profit, prob_profit)
        risk == max_loss
    IN  IF expected_return.t = "raise" THEN Raise
        ELSE IF risk.t = "num" /\ risk.n = 0 THEN Num(0)
        ELSE PyDiv(expected_return, risk)

\* expected_return / risk if risk != 0 else 0
RiskAdjustedReturn(max_profit, max_loss, prob_profit) ==
    LET expected_return == PyMul(PySub(max_profit, max_loss), prob_profit)
        risk == max_loss
    IN  IF expected_return.t = "raise" THEN Raise
        ELSE IF risk.t = "num" /\ risk.n = 0 THEN Num(0)
        ELSE PyDiv(expected_return, risk)

\* the body of calculate_risk_metrics inside its try: the record, or Raise
RiskBody(option_data, underlying_price) ==
    IF Falsy(option_data) \/ ~HasKey(option_data, "option_type")
    THEN _get_default_risk_metrics
    ELSE LET max_loss == Get(option_data, "lastPrice", Num(0))
             max_profit == MaxProfit(option_data, max_loss)
             breakeven == Breakeven(option_data, max_loss)
             prob_profit == ProbProfit(option_data)
             risk_adjusted_return ==
                 RiskAdjustedReturn(max_profit, max_loss, prob_profit)
         IN  IF \/ max_profit.t = "raise" \/ breakeven.t = "raise"
                \/ prob_profit.t = "raise" \/ risk_adjusted_return.t = "raise"
             THEN Raise
             ELSE [t |-> "dict", max_profit |-> max_profit,
                   max_loss |-> max_loss, breakeven |-> breakeven,
                   prob_profit |-> prob_profit,
                   risk_adjusted_return |-> risk_adjusted_return]

\* a slip: no except clause, the exception reaches the caller
RiskExceptReraise(r) == r

\* the except clause of calculate_risk_metrics
RiskExcept(r) == IF r.t = "raise" THEN _get_default_risk_metrics ELSE r

calculate_risk_metrics(option_data, underlying_price) ==
    RiskExcept(RiskBody(option_data, underlying_price))

_get_default_recommendation ==
    [t |-> "dict", market_bias |-> "neutral",
     recommended_strategy |-> "iron_condor", position_size |-> 0,
     risk_metrics |-> _get_default_risk_metrics,
     option_details |->
         [strike |-> Num(0), expiration |-> Str(""), type |-> Str("unknown")]]

\* the constants of recommend_strategy
account_size == 100000
max_risk_per_trade == Rat(2, 100)
MaxContracts == 100
MinRiskAdjustedReturn == 2
MinIvPercentile == 70

\* a slip: the cap of 100 contracts left out
PositionSizeUncapped(max_loss) ==
    IF Gt(max_loss, Num(0))
    THEN PyDiv(PyMul(Num(account_size), max_risk_per_trade), max_loss)
    ELSE Num(0)

\* min(account_size * max_risk_per_trade / max_loss if max_loss > 0 else 0, 100)
PositionSize(max_loss) ==
    PyMin(IF Gt(max_loss, Num(0))
          THEN PyDiv(PyMul(Num(account_size), max_risk_per_trade), max_loss)
          ELSE Num(0),
          Num(MaxContracts))

\* a slip: >= in place of >
ExceedsReturnOrEqual(rar) == ~Lt(rar, Num(MinRiskAdjustedReturn))

\* risk_metrics.get('risk_adjusted_return', 0) > 2
ExceedsReturn(rar) == Gt(rar, Num(MinRiskAdjustedReturn))

\* a slip: the names of the bullish and the bearish branch exchanged
SelectStrategyCrossed(market_bias, risk_metrics, options_data) ==
    LET rar == Get(risk_metrics, "risk_adjusted_return", Num(0))
        vol_metrics == Get(options_data, "volatility_metrics", EmptyVol)
        iv_percentile == Get(vol_metrics, "iv_percentile", Num(0))
    IN  IF market_bias = "bullish"
        THEN IF ExceedsReturn(rar) THEN "long_put" ELSE "bear_put_spread"
        ELSE IF market_bias = "bearish"
        THEN IF ExceedsReturn(rar) THEN "long_call" ELSE "bull_call_spread"
        ELSE IF ~IsNumeric(iv_percentile) THEN "raise"
        ELSE IF Gt(iv_percentile, Num(MinIvPercentile))
             THEN "iron_condor" ELSE "short_strangle"

\* the if/elif/else that picks the strategy: a name, or "raise" when the
\* comparison of iv_percentile with 70 is a TypeError
SelectStrategy(market_bias, risk_metrics, options_data) ==
    LET rar == Get(risk_metrics, "risk_adjusted_return", Num(0))
        vol_metrics == Get(options_data, "volatility_metrics", EmptyVol)
        iv_percentile == Get(vol_metrics, "iv_percentile", Num(0))
    IN  IF market_bias = "bullish"
        THEN IF ExceedsReturn(rar) THEN "long_call" ELSE "bull_call_spread"
        ELSE IF market_bias = "bearish"
        THEN IF ExceedsReturn(rar) THEN "long_put" ELSE "bear_put_spread"
        ELSE IF ~IsNumeric(iv_percentile) THEN "raise"
        ELSE IF Gt(iv_percentile, Num(MinIvPercentile))
             THEN "iron_condor" ELSE "short_strangle"

\* the body of recommend_strategy inside its try: the record, or Raise
RecommendBody(options_data) ==
    IF Falsy(options_data) THEN _get_default_recommendation
    ELSE LET underlying_data ==
                 Get(options_data, "underlying_data", EmptyUnderlying)
             market_bias == analyze_market_conditions(underlying_data)
             available_strategies ==
                 IF market_bias \in DOMAIN strategies
                 THEN strategies[market_bias] ELSE strategies["neutral"]
             option_data == Get(options_data, "option_data", EmptyOption)
             current_price == Get(underlying_data, "current_price", Num(0))
             risk_metrics == calculate_risk_metrics(option_data, current_price)
             max_loss == Get(risk_metrics, "max_loss", Num(1))
             position_size == PositionSize(max_loss)
             strategy == SelectStrategy(market_bias, risk_metrics, options_data)
             strike == Get(option_data, "strike", Num(0))
             expiration == Get(option_data, "expiration", Str(""))
             type == Get(option_data, "option_type", Str("unknown"))
         IN  IF \/ "neutral" \notin DOMAIN strategies
                \/ current_price.t = "raise" \/ strategy = "raise"
                \/ strike.t = "raise" \/ expiration.t = "raise"
                \/ type.t = "raise"
             THEN Raise
             ELSE [t |-> "dict", market_bias |-> market_bias,
                   recommended_strategy |-> strategy,
                   position_size |-> PyInt(position_size),
                   risk_metrics |-> risk_metrics,
                   option_details |->
                       [strike |-> strike, expiration |-> expiration,
                        type |-> type]]

\* a slip: no except clause, the exception reaches the caller
RecommendExceptReraise(r) == r

\* the except clause of recommend_strategy
RecommendExcept(r) == IF r.t = "raise" THEN _get_default_recommendation ELSE r

recommend_strategy(options_data) == RecommendExcept(RecommendBody(options_data))

---------------------------------------------------------------------------
(* The inputs a caller passes *)

\* the largest price move of a window, in currency units
MaxMove == 6
\* premiums are 5 k^3 / 2 for k up to MaxPremiumStep
MaxPremiumStep == 4
\* deltas are the multiples of 1 / DeltaDen in [-1, 1]
DeltaDen == 4

StartPrices == {50, 100}
BadScalars == {Str("n/a"), NoneV, Missing}

Window(start, end, vol) ==
    [t |-> "dict", start_price |-> start, end_price |-> end, volatility |-> vol]

\* windows with numeric prices, start_price > 0
GoodWindows(vol) ==
    {Window(Num(s), Num(s + k), vol) : s \in StartPrices, k \in -MaxMove..MaxMove}

\* windows that are absent, None, or carry a zero, absent or non-numeric price
BadWindows(vol) ==
    {Window(b, Num(100), vol) : b \in BadScalars \cup {Num(0)}}
    \cup {Window(Num(100), b, vol) : b \in BadScalars}
    \cup {NoneV, Missing}

Windows5d == GoodWindows(Rat(1, 5)) \cup BadWindows(Rat(1, 5))
Windows1mo ==
    GoodWindows(Rat(1, 4)) \cup BadWindows(Rat(1, 4))
    \cup {Window(Num(100), Num(100 + k), v) :
              k \in {-MaxMove, MaxMove}, v \in {Missing, Str("n/a")}}
Windows3mo ==
    {Window(Num(100), Num(101), Rat(3, 10)), Window(Num(100), Num(101), Missing),
     Missing}

Hist(w5d, w1mo, w3mo) ==
    ("t" :> "dict") @@ ("5d" :> w5d) @@ ("1mo" :> w1mo) @@ ("3mo" :> w3mo)

Underlying(hist) ==
    [t |-> "dict", historical_data |-> hist, current_price |-> Num(100),
     expected_move |-> Missing]

UnderlyingInputs ==
    {NoneV, EmptyUnderlying, Underlying(Missing), Underlying(NoneV)}
    \cup {Underlying(Hist(a, b, c)) :
             a \in Windows5d, b \in Windows1mo, c \in Windows3mo}

LastPrices ==
    {Rat(5 * k * k * k, 2) : k \in -1..MaxPremiumStep} \cup {Num(5), Num(3000)}
Strikes == {Num(0), Num(20), Num(100)}
Deltas == {Rat(k, DeltaDen) : k \in -DeltaDen..DeltaDen}
GreeksInputs ==
    {[t |-> "dict", delta |-> d] : d \in Deltas \cup BadScalars}
    \cup {NoneV, Missing, AllZeroGreeks}
OptionTypes == {Str("call"), Str("put"), Str("straddle"), Missing}

Option(type, strike, lastPrice, greeks) ==
    [t |-> "dict", option_type |-> type, strike |-> strike,
     lastPrice |-> lastPrice, expiration |-> Str("2024-01-19"),
     greeks |-> greeks]

OptionInputs ==
    {NoneV, EmptyOption}
    \cup {Option(ty, k, p, g) :
             ty \in OptionTypes, k \in Strikes \cup BadScalars,
             p \in LastPrices \cup BadScalars, g \in GreeksInputs}

\* the inputs of recommend_strategy: a cut of the sets above, so that the
\* product stays small
RecUnderlying ==
    {NoneV, Missing, EmptyUnderlying}
    \cup {Underlying(Hist(Window(Num(100), Num(100 + a), Rat(1, 5)),
                          Window(Num(100), Num(100 + b), Rat(1, 4)), c)) :
             a \in {-3, 2, 3}, b \in {-6, 6},
             c \in {Window(Num(100), Num(101), Rat(3, 10)), Missing}}
RecOption ==
    {NoneV, Missing}
    \cup {Option(ty, k, p, g) :
             ty \in {Str("call"), Str("put"), Missing},
             k \in {Num(20), Num(100), Str("n/a")},
             p \in LastPrices \cup {Str("n/a")},
             g \in {[t |-> "dict", delta |-> d] :
                        d \in {Num(0), Rat(1, 2), Num(-1)}} \cup {NoneV}}
RecVol ==
    {NoneV, Missing}
    \cup {[t |-> "dict", iv_percentile |-> v] :
             v \in {Missing, Num(70), Num(71), Str("n/a")}}
OptionsInputs ==
    {NoneV, EmptyOptions}
    \cup {[t |-> "dict", underlying_data |-> u, option_data |-> o,
           volatility_metrics |-> v, days_to_expiry |-> Num(30)] :
             u \in RecUnderlying, o \in RecOption, v \in RecVol}

---------------------------------------------------------------------------
(* The advisor as a state machine: a caller makes one call at a time *)

\* lines 9-10: the class attributes before the first Config(); the sections
\* a caller may ask for are logging, settings and, never loaded, storage
EmptyConfig ==
    [t |-> "dict", logging |-> Missing, settings |-> Missing, storage |-> Missing]

Init ==
    /\ pc = "idle"
    /\ op = "none"
    /\ arg = NoneV
    /\ ret = NoneV
    /\ strategies = StrategyTable
    /\ thresholds = Thresholds
    /\ _instance = NoneV
    /\ _config = EmptyConfig
    /\ history = NoneV
    /\ locals = NoneV

\* a call of analyze_market_conditions on one of the given inputs
AnalyzeMarketConditionsOf(inputs) ==
    /\ pc = "idle"
    /\ \E underlying_data \in inputs :
          /\ arg' = underlying_data
          /\ ret' = analyze_market_conditions(underlying_data)
    /\ op' = "analyze_market_conditions"
    /\ pc' = "done"
    /\ UNCHANGED <<strategies, thresholds, _instance, _config, history, locals>>

AnalyzeMarketConditions == AnalyzeMarketConditionsOf(UnderlyingInputs)

\* a call of calculate_risk_metrics on one of the given inputs
CalculateRiskMetricsOf(inputs) ==
    /\ pc = "idle"
    /\ \E option_data \in inputs :
          /\ arg' = option_data
          /\ ret' = calculate_risk_metrics(option_data, Num(100))
    /\ op' = "calculate_risk_metrics"
    /\ pc' = "done"
    /\ UNCHANGED <<strategies, thresholds, _instance, _config, history, locals>>

CalculateRiskMetrics == CalculateRiskMetricsOf(OptionInputs)

\* a slip: the call drops the neutral row of the table it has read
RecommendStrategyForgetting(inputs) ==
    /\ pc = "idle"
    /\ \E options_data \in inputs :
          /\ arg' = options_data
          /\ ret' = recommend_strategy(options_data)
    /\ op' = "recommend_strategy"
    /\ pc' = "done"
    /\ strategies' = [k \in DOMAIN strategies \ {"neutral"} |-> strategies[k]]
    /\ UNCHANGED <<thresholds, _instance, _config, history, locals>>

\* a call of recommend_strategy on one of the given inputs
RecommendStrategyOf(inputs) ==
    /\ pc = "idle"
    /\ \E options_data \in inputs :
          /\ arg' = options_data
          /\ ret' = recommend_strategy(options_data)
    /\ op' = "recommend_strategy"
    /\ pc' = "done"
    /\ UNCHANGED <<strategies, thresholds, _instance, _config, history, locals>>

RecommendStrategy == RecommendStrategyOf(OptionsInputs)

\* the caller takes the result; the advisor keeps nothing of the call
Return ==
    /\ pc = "done"
    /\ pc' = "idle"
    /\ op' = "none"
    /\ arg' = NoneV
    /\ ret' = NoneV
    /\ locals' = NoneV
    /\ UNCHANGED <<strategies, thresholds, _instance, _config, history>>

Next ==
    \/ AnalyzeMarketConditions
    \/ CalculateRiskMetrics
    \/ RecommendStrategy
    \/ Return

Spec == Init /\ [][Next]_vars

---------------------------------------------------------------------------
(* Properties of analyze_market_conditions *)

Analyzed == pc = "done" /\ op = "analyze_market_conditions"

\* the window is a mapping with numeric prices and start_price > 0
PricedWindow(w) ==
    /\ w.t = "dict"
    /\ w.start_price.t = "num" /\ w.start_price.n > 0
    /\ w.end_price.t = "num"

\* the snapshot has a 5d and a 1mo window with start_price > 0
HasMomentum(u) ==
    /\ u.t = "dict" /\ u.historical_data.t = "dict"
    /\ PricedWindow(u.historical_data["5d"])
    /\ PricedWindow(u.historical_data["1mo"])

\* the 1mo and the 3mo window both carry a numeric volatility
HasVolatilities(u) ==
    /\ u.historical_data["1mo"].volatility.t = "num"
    /\ u.historical_data["3mo"].t = "dict"
    /\ u.historical_data["3mo"].volatility.t = "num"

\* (end_price - start_price) / start_price > p / 100, in integers
MoveAbove(w, p) ==
    (w.end_price.n * w.start_price.d - w.start_price.n * w.end_price.d) * 100
        > p * w.start_price.n * w.end_price.d

\* (end_price - start_price) / start_price < - p / 100, in integers
MoveBelow(w, p) ==
    (w.end_price.n * w.start_price.d - w.start_price.n * w.end_price.d) * 100
        < (-p) * w.start_price.n * w.end_price.d

\* the bias the momentum rule gives: thresholds 2% and 5%, both strict
BiasOfMomentum(u) ==
    LET w5 == u.historical_data["5d"]
        w1 == u.historical_data["1mo"]
    IN  IF MoveAbove(w5, 2) /\ MoveAbove(w1, 5) THEN "bullish"
        ELSE IF MoveBelow(w5, 2) /\ MoveBelow(w1, 5) THEN "bearish"
        ELSE "neutral"

\* C1 as stated: whenever the 5d and 1mo windows have start_price > 0, the
\* result is the bias of the momentum rule and depends on nothing else.
C1_MomentumAlone ==
    Analyzed /\ HasMomentum(arg) => ret = BiasOfMomentum(arg)

\* C1 amended: the result is the bias of the momentum rule when, besides,
\* the 1mo and 3mo windows carry a numeric volatility; without them the
\* result is neutral whatever the momentum.
C1_MomentumWithVolatility ==
    Analyzed /\ HasMomentum(arg) =>
        ret = IF HasVolatilities(arg) THEN BiasOfMomentum(arg) ELSE "neutral"

\* a bullish snapshot, classified bullish
C1_Witness ==
    /\ Analyzed /\ HasMomentum(arg) /\ HasVolatilities(arg)
    /\ BiasOfMomentum(arg) = "bullish" /\ ret = "bullish"

\* the snapshot is empty, None, without historical_data, without a 5d or 1mo
\* window, or with a missing or non-numeric start_price or end_price
MalformedUnderlying(u) ==
    \/ u.t # "dict"
    \/ u.historical_data.t # "dict"
    \/ \E k \in {"5d", "1mo"} :
          \/ u.historical_data[k].t # "dict"
          \/ u.historical_data[k].start_price.t # "num"
          \/ u.historical_data[k].end_price.t # "num"

\* C4: analyze_market_conditions never raises, and returns neutral on
\* malformed underlying data.
C4_AnalyzeFailsSafe ==
    Analyzed =>
        /\ ret \in {"bullish", "bearish", "neutral"}
        /\ MalformedUnderlying(arg) => ret = "neutral"

\* a snapshot whose 5d start_price is a string, classified neutral
C4_Witness ==
    /\ Analyzed /\ arg.t = "dict" /\ arg.historical_data.t = "dict"
    /\ arg.historical_data["5d"].t = "dict"
    /\ arg.historical_data["5d"].start_price.t = "str"
    /\ ret = "neutral"

---------------------------------------------------------------------------
(* Properties of recommend_strategy *)

Recommended == pc = "done" /\ op = "recommend_strategy"

\* the value of a key of the call's options_data that is absent or numeric
AbsentOrNumeric(v) == v.t \in {"missing", "num"}

\* iv_percentile of the input, 0 when volatility_metrics or the key is absent
IvPercentileAbove70(o) ==
    /\ o.volatility_metrics.t = "dict"
    /\ o.volatility_metrics.iv_percentile.t = "num"
    /\ o.volatility_metrics.iv_percentile.n
           > 70 * o.volatility_metrics.iv_percentile.d

\* the reported risk_adjusted_return is above 2 (NaN is not)
ReturnAbove2(r) ==
    LET rar == r.risk_metrics.risk_adjusted_return
    IN  \/ rar.t = "inf"
        \/ rar.t = "num" /\ rar.n > 2 * rar.d

\* the decision table over the reported bias
TableStrategy(o, r) ==
    CASE r.market_bias = "bullish" ->
            IF ReturnAbove2(r) THEN "long_call" ELSE "bull_call_spread"
      [] r.market_bias = "bearish" ->
            IF ReturnAbove2(r) THEN "long_put" ELSE "bear_put_spread"
      [] OTHER ->
            IF IvPercentileAbove70(o) THEN "iron_condor" ELSE "short_strangle"

\* iv_percentile is absent or a number
IvReadable(o) ==
    \/ o.volatility_metrics.t = "missing"
    \/ /\ o.volatility_metrics.t = "dict"
       /\ AbsentOrNumeric(o.volatility_metrics.iv_percentile)

\* underlying_data and option_data are absent or mappings
SectionsAreMappings(o) ==
    /\ o.underlying_data.t \in {"missing", "dict"}
    /\ o.option_data.t \in {"missing", "dict"}

\* C2 as stated: on non-empty input (iv_percentile absent or numeric) the
\* strategy is the decision table's.
C2_TableOnNonEmpty ==
    Recommended /\ ~Falsy(arg) /\ IvReadable(arg) =>
        ret.recommended_strategy = TableStrategy(arg, ret)

\* C2 amended: on non-empty input the result is the default recommendation
\* (neutral, iron_condor) or the decision table's strategy, and it is the
\* table's whenever underlying_data and option_data are absent or mappings
\* and iv_percentile is absent or numeric.
C2_TableOrDefault ==
    Recommended /\ ~Falsy(arg) =>
        /\ \/ ret = _get_default_recommendation
           \/ ret.recommended_strategy = TableStrategy(arg, ret)
        /\ SectionsAreMappings(arg) /\ IvReadable(arg) =>
               ret.recommended_strategy = TableStrategy(arg, ret)

\* a bearish recommendation with risk_adjusted_return exactly 2: the spread
C2_Witness ==
    /\ Recommended /\ ~Falsy(arg) /\ SectionsAreMappings(arg) /\ IvReadable(arg)
    /\ ret.market_bias = "bearish"
    /\ ret.risk_metrics.risk_adjusted_return = Num(2)
    /\ ret.recommended_strategy = "bear_put_spread"

\* min(floor(2000 / max_loss), 100) for max_loss = n / d > 0, in integers
CappedSize(max_loss) ==
    LET size == (2000 * max_loss.d) \div max_loss.n
    IN  IF size > 100 THEN 100 ELSE size

\* C3: position_size is an integer in 0..100, min(floor(2000 / max_loss), 100)
\* when max_loss > 0 and 0 when max_loss <= 0.
C3_PositionSize ==
    Recommended =>
        LET max_loss == ret.risk_metrics.max_loss
        IN  /\ ret.position_size \in 0..100
            /\ max_loss.t = "num"
            /\ ret.position_size =
                   IF max_loss.n > 0 THEN CappedSize(max_loss) ELSE 0

\* a recommendation sized below the cap, with a fractional 2000 / max_loss
C3_Witness ==
    /\ Recommended
    /\ ret.position_size \notin {0, 100}
    /\ ret.position_size * ret.risk_metrics.max_loss.n
           < 2000 * ret.risk_metrics.max_loss.d

---------------------------------------------------------------------------
(* Properties of calculate_risk_metrics *)

RiskComputed == pc = "done" /\ op = "calculate_risk_metrics"

\* option_data is a mapping of the given option_type whose strike and
\* lastPrice are numbers
PricedOption(o, type) ==
    /\ o.t = "dict"
    /\ o.option_type.t = "str" /\ o.option_type.s = type
    /\ o.strike.t = "num" /\ o.lastPrice.t = "num"

\* the greeks entry is absent or a mapping whose delta is absent or a number
GreeksReadable(o) ==
    \/ o.greeks.t = "missing"
    \/ o.greeks.t = "dict" /\ AbsentOrNumeric(o.greeks.delta)

\* strike + sign * lastPrice, in integers
StrikeAndPremium(o, sign) ==
    Rat(o.strike.n * o.lastPrice.d + sign * o.lastPrice.n * o.strike.d,
        o.strike.d * o.lastPrice.d)

\* the record of a long call
CallMetrics(o, r) ==
    /\ r.max_loss = o.lastPrice
    /\ r.max_profit = Inf
    /\ r.breakeven = StrikeAndPremium(o, 1)

\* the record of a long put
PutMetrics(o, r) ==
    /\ r.max_loss = o.lastPrice
    /\ r.max_profit = StrikeAndPremium(o, -1)
    /\ r.breakeven = StrikeAndPremium(o, -1)

\* C5 as stated: a call with numeric strike and lastPrice gets
\* max_loss = lastPrice, max_profit = +infinity, breakeven = strike + lastPrice.
C5_CallUnconditional ==
    RiskComputed /\ PricedOption(arg, "call") => CallMetrics(arg, ret)

\* C5 amended: it does when, besides, the greeks entry is absent or a mapping
\* whose delta is absent or numeric; otherwise the record is all zero.
C5_CallWithReadableGreeks ==
    RiskComputed /\ PricedOption(arg, "call") =>
        IF GreeksReadable(arg) THEN CallMetrics(arg, ret)
        ELSE ret = _get_default_risk_metrics

\* the call strike = 100, lastPrice = 5: breakeven 105, max_loss 5
C5_Witness ==
    /\ RiskComputed /\ PricedOption(arg, "call") /\ GreeksReadable(arg)
    /\ arg.strike = Num(100) /\ arg.lastPrice = Num(5)
    /\ ret.breakeven = Num(105) /\ ret.max_loss = Num(5) /\ ret.max_profit = Inf

\* C6 as stated: a put with numeric strike and lastPrice gets
\* max_loss = lastPrice, max_profit = breakeven = strike - lastPrice.
C6_PutUnconditional ==
    RiskComputed /\ PricedOption(arg, "put") => PutMetrics(arg, ret)

\* C6 amended: it does when, besides, the greeks entry is absent or a mapping
\* whose delta is absent or numeric; otherwise the record is all zero.
C6_PutWithReadableGreeks ==
    RiskComputed /\ PricedOption(arg, "put") =>
        IF GreeksReadable(arg) THEN PutMetrics(arg, ret)
        ELSE ret = _get_default_risk_metrics

\* the put strike = 100, lastPrice = 5: breakeven 95, max_profit 95
C6_Witness ==
    /\ RiskComputed /\ PricedOption(arg, "put") /\ GreeksReadable(arg)
    /\ arg.strike = Num(100) /\ arg.lastPrice = Num(5)
    /\ ret.breakeven = Num(95) /\ ret.max_profit = Num(95) /\ ret.max_loss = Num(5)

\* delta of the input is a number in [-1, 1]
DeltaInRange(o) ==
    /\ o.t = "dict" /\ o.greeks.t = "dict" /\ o.greeks.delta.t = "num"
    /\ Abs(o.greeks.delta.n) <= o.greeks.delta.d

\* C7: for a long call with lastPrice > 0 and delta in [-1, 1] the
\* risk_adjusted_return is +infinity or a large finite number, never NaN.
C7_CallReturnDefined ==
    /\ RiskComputed /\ PricedOption(arg, "call") /\ ret.max_profit = Inf
    /\ arg.lastPrice.n > 0 /\ DeltaInRange(arg)
    => LET rar == ret.risk_adjusted_return
       IN  \/ rar.t = "inf"
           \/ rar.t = "num" /\ rar.n >= 1000000 * rar.d

\* (max_profit - max_loss) * prob_profit / max_loss of a record, in integers
ReturnFormula(r) ==
    Rat((r.max_profit.n * r.max_loss.d - r.max_loss.n * r.max_profit.d)
            * r.prob_profit.n * r.max_loss.d,
        r.max_profit.d * r.max_loss.d * r.prob_profit.d * r.max_loss.n)

\* C8: risk_adjusted_return is (max_profit - max_loss) * prob_profit / max_loss
\* when max_loss # 0 and max_profit is finite, and 0 when max_loss = 0.
C8_ReturnFormula ==
    RiskComputed =>
        /\ ret.max_loss.t = "num"
        /\ ret.max_loss.n # 0 /\ ret.max_profit.t = "num" =>
               ret.risk_adjusted_return = ReturnFormula(ret)
        /\ ret.max_loss.n = 0 => ret.risk_adjusted_return = Num(0)

\* a put with a premium and a return that is not zero
C8_Witness ==
    /\ RiskComputed /\ PricedOption(arg, "put")
    /\ ret.max_loss.n # 0 /\ ret.max_profit.t = "num"
    /\ ret.risk_adjusted_return.t = "num" /\ ret.risk_adjusted_return.n # 0
    /\ ret.prob_profit \notin {Num(0), Num(1)}

\* a value that is present and not a number
NonNumeric(v) == v.t \in {"str", "none"}

\* option_data is empty or None, lacks option_type, or a step fails on it
RiskInputFails(o) ==
    \/ o.t = "none"
    \/ o = EmptyOption
    \/ o.option_type.t = "missing"
    \/ NonNumeric(o.strike)
    \/ NonNumeric(o.lastPrice)
    \/ o.greeks.t = "none"
    \/ o.greeks.t = "dict" /\ NonNumeric(o.greeks.delta)

\* C9: calculate_risk_metrics never raises, and returns the all-zero record
\* (max_profit 0 even for a call) on empty input, a missing option_type or a
\* failing step.
C9_RiskFailsSafe ==
    RiskComputed =>
        /\ ret.t = "dict"
        /\ RiskInputFails(arg) =>
               /\ ret.max_profit = Num(0) /\ ret.max_loss = Num(0)
               /\ ret.breakeven = Num(0) /\ ret.prob_profit = Num(0)
               /\ ret.risk_adjusted_return = Num(0)

\* a priced call whose greeks entry is None: the all-zero record
C9_Witness ==
    /\ RiskComputed /\ PricedOption(arg, "call") /\ arg.lastPrice.n > 0
    /\ arg.greeks.t = "none"
    /\ ret.max_profit = Num(0) /\ ret.max_loss = Num(0)

\* 1 - |delta| of the input, in integers
OneMinusAbsDelta(o) ==
    Rat(o.greeks.delta.d - Abs(o.greeks.delta.n), o.greeks.delta.d)

\* 0 <= v <= 1
InUnitInterval(v) == v.t = "num" /\ 0 <= v.n /\ v.n <= v.d

\* C10 as stated: prob_profit = 1 - |delta|, in [0, 1] for delta in [-1, 1].
C10_ProbProfitUnconditional ==
    RiskComputed /\ DeltaInRange(arg) =>
        /\ ret.prob_profit = OneMinusAbsDelta(arg)
        /\ InUnitInterval(ret.prob_profit)

\* C10 amended: prob_profit = 1 - |delta| when option_type is present and
\* strike and lastPrice are absent or numeric, and 0 (the all-zero record)
\* otherwise; in both cases it lies in [0, 1] for delta in [-1, 1].
C10_ProbProfitUnlessDefault ==
    RiskComputed /\ DeltaInRange(arg) =>
        /\ ret.prob_profit =
               IF /\ arg.option_type.t # "missing"
                  /\ AbsentOrNumeric(arg.strike)
                  /\ AbsentOrNumeric(arg.lastPrice)
               THEN OneMinusAbsDelta(arg) ELSE Num(0)
        /\ InUnitInterval(ret.prob_profit)

\* a negative delta strictly inside the range, prob_profit = 1 + delta
C10_Witness ==
    /\ RiskComputed /\ DeltaInRange(arg)
    /\ arg.greeks.delta.n < 0 /\ -arg.greeks.delta.n < arg.greeks.delta.d
    /\ ret.max_loss # Num(0)
    /\ ret.prob_profit = OneMinusAbsDelta(arg)

---------------------------------------------------------------------------
(* simulate_strategy and _find_breakeven_points                             *)
(*                                                                         *)
(* A Python list is the record [t |-> "list", v |-> the sequence].  The    *)
(* scenario prices are the exact rationals start + i * step; numpy rounds   *)
(* each of them to the nearest float.  On a grid of integers (S = 495:      *)
(* 396, 398, ..., 594) the floats are these rationals exactly.              *)

\* the list of the elements of s (s \o <<>> is s, enumerated)
ListV(s) == [t |-> "list", v |-> s \o <<>>]

\* a <= b between numbers
Le(a, b) == Lt(a, b) \/ (a.t = "num" /\ b.t = "num" /\ a = b)

\* not x, for a scalar: None, zero and the empty string are falsy
FalsyScalar(v) ==
    \/ v.t = "none"
    \/ v.t = "num" /\ v.n = 0
    \/ v.t = "str" /\ v.s = ""

\* the number of scenario prices
NumScenarios == 100

\* np.linspace(start, stop, num) without the shift by start
LinspaceUnshifted(start, stop, num) ==
    IF start.t # "num" \/ stop.t # "num" THEN Raise
    ELSE LET step == PyDiv(PySub(stop, start), Num(num - 1))
         IN  ListV([i \in 1..num |->
                       IF i = num THEN stop ELSE PyMul(Num(i - 1), step)])

\* np.linspace(start, stop, num): arange(num) * step + start, step being
\* (stop - start) / (num - 1), and the last element set to stop
Linspace(start, stop, num) ==
    IF start.t # "num" \/ stop.t # "num" THEN Raise
    ELSE LET step == PyDiv(PySub(stop, start), Num(num - 1))
         IN  ListV([i \in 1..num |->
                       IF i = num THEN stop
                       ELSE PyAdd(PyMul(Num(i - 1), step), start)])

\* max(0, x) as the builtin computes it: x if x > 0 else 0
PyMax0(x) ==
    IF ~IsNumeric(x) THEN Raise
    ELSE IF Gt(x, Num(0)) THEN x ELSE Num(0)

\* max(values) taken to be the first element
PyMaxOfFirst(s) == s[1]

\* max(values): the first element that no element exceeds
PyMaxOf(s) ==
    LET i == CHOOSE i \in 1..Len(s) :
                 /\ \A j \in 1..Len(s) : ~Gt(s[j], s[i])
                 /\ \A j \in 1..(i - 1) : Gt(s[i], s[j])
    IN  s[i]

\* min(values): the first element that is below no element
PyMinOf(s) ==
    LET i == CHOOSE i \in 1..Len(s) :
                 /\ \A j \in 1..Len(s) : ~Lt(s[j], s[i])
                 /\ \A j \in 1..(i - 1) : Lt(s[i], s[j])
    IN  s[i]

_get_default_simulation ==
    [t |-> "dict", scenarios |-> ListV(<<>>), pnl |-> ListV(<<>>),
     max_profit |-> Num(0), max_loss |-> Num(0),
     breakeven_points |-> ListV(<<>>)]

\* the test of line 320 with a strict sign change
SignChangeStrict(y1, y2) == Lt(PyMul(y1, y2), Num(0))

\* pnl[i] * pnl[i+1] <= 0
SignChange(y1, y2) == Le(PyMul(y1, y2), Num(0))

\* one pass of the loop of _find_breakeven_points: what index i appends
BreakevenAt(scenarios, pnl, i) ==
    IF i + 1 > Len(scenarios) THEN <<Raise>>
    ELSE IF ~(IsNumeric(pnl[i]) /\ IsNumeric(pnl[i + 1])) THEN <<Raise>>
    ELSE IF ~SignChange(pnl[i], pnl[i + 1]) THEN <<>>
    ELSE LET x1 == scenarios[i]
             x2 == scenarios[i + 1]
             y1 == pnl[i]
             y2 == pnl[i + 1]
         IN  IF y2 # y1
             THEN <<PySub(x1, PyDiv(PyMul(y1, PySub(x2, x1)), PySub(y2, y1)))>>
             ELSE <<>>

\* the try block of _find_breakeven_points: the values the passes append,
\* in the order of the loop
BreakevenBody(scenarios, pnl) ==
    LET passes == 1..(Len(pnl.v) - 1)
        appending == {i \in passes : BreakevenAt(scenarios.v, pnl.v, i) # <<>>}
        nth(k) == CHOOSE i \in appending :
                      Cardinality({j \in appending : j < i}) = k - 1
        breakeven_points ==
            [k \in 1..Cardinality(appending) |->
                BreakevenAt(scenarios.v, pnl.v, nth(k))[1]]
    IN  IF \E k \in 1..Len(breakeven_points) : breakeven_points[k] = Raise
        THEN Raise
        ELSE ListV(breakeven_points)

\* except Exception: return []
BreakevenExcept(r) == IF r = Raise THEN ListV(<<>>) ELSE r

_find_breakeven_points(scenarios, pnl) ==
    BreakevenExcept(BreakevenBody(scenarios, pnl))

\* the payoff with the two branches exchanged
PnlAtSwapped(strategy, price, strike, last_price) ==
    IF strategy = "long_put"
    THEN PySub(PyMax0(PySub(price, strike)), last_price)
    ELSE IF strategy = "long_call"
    THEN PySub(PyMax0(PySub(strike, price)), last_price)
    ELSE Num(0)

\* the body of the loop of lines 276-282
PnlAt(strategy, price, strike, last_price) ==
    IF strategy = "long_call"
    THEN PySub(PyMax0(PySub(price, strike)), last_price)
    ELSE IF strategy = "long_put"
    THEN PySub(PyMax0(PySub(strike, price)), last_price)
    ELSE Num(0)

\* the try block of simulate_strategy
SimulateBody(strategy, options_data, underlying_price) ==
    IF Falsy(options_data) \/ FalsyScalar(underlying_price)
    THEN _get_default_simulation
    ELSE
    LET scenarios == Linspace(PyMul(underlying_price, Rat(8, 10)),
                              PyMul(underlying_price, Rat(12, 10)),
                              NumScenarios)
        option_data == Get(options_data, "option_data", EmptyOption)
        strike == Get(option_data, "strike", Num(0))
        last_price == Get(option_data, "lastPrice", Num(0))
        pnl == ListV([i \in 1..NumScenarios |->
                         PnlAt(strategy, scenarios.v[i], strike, last_price)])
    IN  IF scenarios = Raise \/ strike = Raise \/ last_price = Raise THEN Raise
        ELSE IF \E i \in 1..NumScenarios : pnl.v[i] = Raise THEN Raise
        ELSE [t |-> "dict", scenarios |-> scenarios, pnl |-> pnl,
              max_profit |-> PyMaxOf(pnl.v), max_loss |-> PyMinOf(pnl.v),
              breakeven_points |-> _find_breakeven_points(scenarios, pnl)]

\* a slip: no except clause, the exception reaches the caller
SimulateExceptReraise(r) == r

\* except Exception: return self._get_default_simulation()
SimulateExcept(r) == IF r = Raise THEN _get_default_simulation ELSE r

simulate_strategy(strategy, options_data, underlying_price) ==
    SimulateExcept(SimulateBody(strategy, options_data, underlying_price))

---------------------------------------------------------------------------
(* The simulator as a state machine *)

\* premiums are the multiples of 5 up to 5 * MaxSimPremium
MaxSimPremium == 3
\* _find_breakeven_points is called on up to MaxPoints points
MaxPoints == 5
\* with payoffs among these
PayoffValues == {-2, -1, 0, 1, 3}

SimStrategies == {"long_call", "long_put", "iron_condor"}
SimPrices == {Num(100), Num(495), Num(-99), Num(0), NoneV, Str("n/a")}
SimStrikes == {Num(70), Num(100), Num(130), Num(400), Missing, Str("n/a")}
SimPremiums ==
    {Num(5 * k) : k \in 0..MaxSimPremium} \cup {Missing, Str("n/a")}
SimOptions ==
    {NoneV, Missing}
    \cup {Option(Str("call"), k, p, Missing) : k \in SimStrikes, p \in SimPremiums}
SimInputs ==
    {NoneV, EmptyOptions}
    \cup {[t |-> "dict", underlying_data |-> Missing, option_data |-> o,
           volatility_metrics |-> Missing, days_to_expiry |-> Num(30)] :
             o \in SimOptions}

\* scenario prices start, start + step, ... for the direct calls
Grid(start, step, n) == ListV([i \in 1..n |-> Num(start + (i - 1) * step)])
Payoffs(n) == {ListV([i \in 1..n |-> Num(f[i])]) : f \in [1..n -> PayoffValues]}

\* a call of simulate_strategy on strategies, options and prices of the given
\* sets
SimulateStrategyOf(strats, inputs, prices) ==
    /\ pc = "idle"
    /\ \E strategy \in strats, options_data \in inputs,
          underlying_price \in prices :
          /\ arg' = [strategy |-> strategy, options_data |-> options_data,
                     underlying_price |-> underlying_price]
          /\ ret' = simulate_strategy(strategy, options_data, underlying_price)
    /\ op' = "simulate_strategy"
    /\ pc' = "done"
    /\ UNCHANGED <<strategies, thresholds, _instance, _config, history, locals>>

SimulateStrategy == SimulateStrategyOf(SimStrategies, SimInputs, SimPrices)

FindBreakevenPoints ==
    /\ pc = "idle"
    /\ \E n \in 1..MaxPoints, step \in {1, 3} :
          \E pnl \in Payoffs(n) :
             /\ arg' = [scenarios |-> Grid(10, step, n), pnl |-> pnl]
             /\ ret' = _find_breakeven_points(Grid(10, step, n), pnl)
    /\ op' = "_find_breakeven_points"
    /\ pc' = "done"
    /\ UNCHANGED <<strategies, thresholds, _instance, _config, history, locals>>

SimNext ==
    \/ SimulateStrategy
    \/ FindBreakevenPoints
    \/ Return

SimSpec == Init /\ [][SimNext]_vars

---------------------------------------------------------------------------
(* Properties of simulate_strategy and _find_breakeven_points *)

Simulated == pc = "done" /\ op = "simulate_strategy"

\* the call is not answered with the default record
SimSucceeded == Simulated /\ Len(ret.scenarios.v) > 0

\* the option of the call is a mapping with an integer strike and premium
SimPriced ==
    /\ Simulated
    /\ arg.options_data.t = "dict" /\ arg.options_data.option_data.t = "dict"
    /\ arg.options_data.option_data.strike.t = "num"
    /\ arg.options_data.option_data.lastPrice.t = "num"
    /\ arg.underlying_price.t = "num"

SimS == arg.underlying_price.n
SimK == arg.options_data.option_data.strike.n
SimP == arg.options_data.option_data.lastPrice.n

\* a long call whose premium is positive and whose strike + lastPrice lies
\* strictly inside the scenario range
BreakevenInRange ==
    /\ SimPriced /\ arg.strategy = "long_call"
    /\ SimP > 0
    /\ 8 * SimS < 10 * (SimK + SimP)
    /\ 10 * (SimK + SimP) < 12 * SimS

\* |b - (strike + lastPrice)| <= 0.4 S / 99
NearBreakeven(b) ==
    990 * Abs(b.n - (SimK + SimP) * b.d) <= 4 * SimS * b.d

\* strike + lastPrice is one of the scenario prices
OnGrid == \E i \in 1..Len(ret.scenarios.v) : ret.scenarios.v[i] = Num(SimK + SimP)

\* C11: a long call with lastPrice > 0 and 0.8 S < strike + lastPrice < 1.2 S
\* has exactly one break-even point, within one grid step of strike +
\* lastPrice, also when strike + lastPrice is one of the scenario prices
C11_SingleBreakeven ==
    BreakevenInRange =>
        /\ Len(ret.breakeven_points.v) = 1
        /\ NearBreakeven(ret.breakeven_points.v[1])

\* the same off the grid: the one case in which the code agrees
C11_SingleBreakevenOffGrid ==
    (BreakevenInRange /\ ~OnGrid) =>
        /\ Len(ret.breakeven_points.v) = 1
        /\ NearBreakeven(ret.breakeven_points.v[1])

\* on the grid the point is reported twice
C11_TwiceOnGrid ==
    (BreakevenInRange /\ OnGrid) =>
        ret.breakeven_points.v = <<Num(SimK + SimP), Num(SimK + SimP)>>

ScanCalled == pc = "done" /\ op = "_find_breakeven_points"

\* the integer scenario prices and payoffs of a direct call
X(i) == arg.scenarios.v[i].n
Y(i) == arg.pnl.v[i].n

\* the indices whose pair changes sign or touches zero, the payoffs differing
Crossings ==
    {i \in 1..(Len(arg.pnl.v) - 1) : Y(i) * Y(i + 1) <= 0 /\ Y(i) # Y(i + 1)}

KthCrossing(k) ==
    CHOOSE i \in Crossings : Cardinality({j \in Crossings : j < i}) = k - 1

\* b = x_i - y_i (x_{i+1} - x_i) / (y_{i+1} - y_i)
Interpolated(b, i) ==
    b.n * (Y(i + 1) - Y(i))
        = b.d * (X(i) * (Y(i + 1) - Y(i)) - Y(i) * (X(i + 1) - X(i)))

\* C12: _find_breakeven_points returns, in scan order, one value for each
\* index i with pnl[i] * pnl[i+1] <= 0 and pnl[i] # pnl[i+1]: the linear
\* interpolation, which lies between scenarios[i] and scenarios[i+1]; equal
\* payoffs contribute nothing, so an all-zero payoff gives the empty list
C12_OneValuePerCrossing ==
    ScanCalled =>
        /\ Len(ret.v) = Cardinality(Crossings)
        /\ \A k \in 1..Len(ret.v) :
              LET i == KthCrossing(k)
                  b == ret.v[k]
              IN  /\ b.t = "num"
                  /\ Interpolated(b, i)
                  /\ X(i) * b.d <= b.n /\ b.n <= X(i + 1) * b.d
        /\ (\A i \in 1..Len(arg.pnl.v) : Y(i) = 0) => ret.v = <<>>

\* a scan that meets a sign change, a zero touched from both sides and a
\* pair of equal payoffs
C12_Witness ==
    /\ ScanCalled
    /\ Len(ret.v) >= 2
    /\ \E i \in Crossings : Y(i) * Y(i + 1) < 0
    /\ \E i \in Crossings : Y(i + 1) = 0 /\ i + 1 \in Crossings
    /\ \E i \in 1..(Len(arg.pnl.v) - 1) : Y(i) = Y(i + 1)

\* the integer a key of the option stands for: 0 when the option or the key
\* is absent
OptionInt(k) ==
    LET o == arg.options_data.option_data
    IN  IF o.t = "missing" \/ o[k].t = "missing" THEN 0 ELSE o[k].n

Max0(i) == IF i > 0 THEN i ELSE 0

\* p = payoff / d, for integers payoff and d
IsQuotient(p, payoff, d) == p.t = "num" /\ p.n * d = p.d * payoff

\* C13: in a successful call pnl[i] is max(0, scenarios[i] - strike) -
\* lastPrice for long_call, max(0, strike - scenarios[i]) - lastPrice for
\* long_put, and 0 for any other strategy, whose max_profit and max_loss are
\* then 0 and whose breakeven_points are empty
C13_Payoff ==
    SimSucceeded =>
        /\ \A i \in 1..Len(ret.pnl.v) :
              LET x == ret.scenarios.v[i]
                  K == OptionInt("strike")
                  P == OptionInt("lastPrice")
              IN  CASE arg.strategy = "long_call" ->
                         IsQuotient(ret.pnl.v[i], Max0(x.n - K * x.d) - P * x.d, x.d)
                    [] arg.strategy = "long_put" ->
                         IsQuotient(ret.pnl.v[i], Max0(K * x.d - x.n) - P * x.d, x.d)
                    [] OTHER -> ret.pnl.v[i] = Num(0)
        /\ arg.strategy \notin {"long_call", "long_put"} =>
              /\ ret.max_profit = Num(0) /\ ret.max_loss = Num(0)
              /\ ret.breakeven_points.v = <<>>

\* a long call whose strike lies inside the scenario range: the payoff is
\* flat below it and rises above it
C13_Witness ==
    /\ SimSucceeded /\ SimPriced /\ arg.strategy = "long_call"
    /\ ret.pnl.v[1] = Num(-SimP) /\ SimP > 0
    /\ Gt(ret.pnl.v[Len(ret.pnl.v)], Num(0))

\* C14: a successful call with S > 0 returns exactly 100 scenario prices,
\* strictly increasing and evenly spaced from 0.8 S to 1.2 S (the i-th is
\* 0.8 S + (i - 1) * 0.4 S / 99), and as many payoffs
C14_ScenarioGrid ==
    (SimSucceeded /\ arg.underlying_price.n > 0) =>
        LET x == ret.scenarios.v
            S == arg.underlying_price.n
        IN  /\ Len(x) = 100
            /\ Len(ret.pnl.v) = 100
            /\ 10 * x[1].n = 8 * S * x[1].d
            /\ 10 * x[100].n = 12 * S * x[100].d
            /\ \A i \in 1..100 : 990 * x[i].n = (788 + 4 * i) * S * x[i].d
            /\ \A i \in 1..99 : x[i].n * x[i + 1].d < x[i + 1].n * x[i].d

\* a successful call at S = 100, whose grid step 40/99 is no integer
C14_Witness ==
    /\ SimSucceeded /\ arg.underlying_price = Num(100)
    /\ ret.scenarios.v[2] = Rat(7960, 99)

\* max_profit is the greatest and max_loss the least payoff; both are finite
ExtremesOfPnl ==
    /\ ret.max_profit.t = "num" /\ ret.max_loss.t = "num"
    /\ \A i \in 1..Len(ret.pnl.v) :
          ~Gt(ret.pnl.v[i], ret.max_profit) /\ ~Lt(ret.pnl.v[i], ret.max_loss)
    /\ Len(ret.pnl.v) > 0 =>
          /\ \E i \in 1..Len(ret.pnl.v) : ret.pnl.v[i] = ret.max_profit
          /\ \E i \in 1..Len(ret.pnl.v) : ret.pnl.v[i] = ret.max_loss
    /\ ~Gt(ret.max_loss, ret.max_profit)

\* max_profit = max(0, 1.2 S - strike) - lastPrice, and max_loss =
\* -lastPrice when strike >= 0.8 S
LongCallExtremes(S, K, P) ==
    /\ IsQuotient(ret.max_profit, Max0(12 * S - 10 * K) - 10 * P, 10)
    /\ 10 * K >= 8 * S => ret.max_loss = Num(-P)

\* C15 as stated: in every result max_profit and max_loss are the greatest
\* and least payoff, finite and ordered, and for long_call max_profit is
\* max(0, 1.2 S - strike) - lastPrice and max_loss is -lastPrice whenever
\* strike >= 0.8 S
C15_ExtremesOfEveryResult ==
    Simulated =>
        /\ ExtremesOfPnl
        /\ (SimPriced /\ arg.strategy = "long_call") =>
              LongCallExtremes(SimS, SimK, SimP)

\* C15 for the results it is true of: the long_call values are those of a
\* successful call with S > 0; the default record has both at 0
C15_ExtremesOfSuccessful ==
    Simulated =>
        /\ ExtremesOfPnl
        /\ (SimSucceeded /\ arg.strategy = "long_call"
               /\ arg.underlying_price.n > 0) =>
              LongCallExtremes(arg.underlying_price.n, OptionInt("strike"),
                               OptionInt("lastPrice"))
        /\ ~SimSucceeded => ret.max_profit = Num(0) /\ ret.max_loss = Num(0)

\* a successful long call with 0.8 S <= strike < 1.2 S: a capped profit at
\* the top of the range and the premium lost at the bottom
C15_Witness ==
    /\ SimSucceeded /\ SimPriced /\ arg.strategy = "long_call"
    /\ SimS > 0 /\ 10 * SimK >= 8 * SimS /\ SimP > 0
    /\ Gt(ret.max_profit, Num(0)) /\ ret.max_loss = Num(-SimP)

---------------------------------------------------------------------------
(* OptionsScraper.calculate_greeks                                          *)
(*                                                                         *)
(* The Black-Scholes formulas go through np.log, np.sqrt, np.exp, norm.cdf  *)
(* and norm.pdf, whose values are no rationals.  Such a value is kept as    *)
(* "real": some finite float in the closed interval [lo, hi], the interval  *)
(* being a range the function is known to stay in (lo = -inf, hi = inf     *)
(* when no range is kept).  The arithmetic of                               *)
(* numpy floats on these is interval arithmetic; a division by zero is a    *)
(* RuntimeWarning and yields inf or nan, never an exception.                *)

Real(lo, hi) == IF lo = hi THEN lo ELSE [t |-> "real", lo |-> lo, hi |-> hi]

IsReal(v) == v.t \in {"num", "real"}
IsFloat(v) == v.t \in {"num", "real", "inf", "ninf", "nan"}
Lo(v) == IF v.t = "real" THEN v.lo ELSE v
Hi(v) == IF v.t = "real" THEN v.hi ELSE v

\* the least and the greatest of a set of finite numbers
Least(S) == CHOOSE m \in S : \A x \in S : ~Lt(x, m)
Greatest(S) == CHOOSE m \in S : \A x \in S : ~Gt(x, m)

\* -1, 0 or 1 when every float of v has that sign
SignOf(v) ==
    CASE v.t = "inf" -> 1
      [] v.t = "ninf" -> -1
      [] IsReal(v) /\ Gt(Lo(v), Num(0)) -> 1
      [] IsReal(v) /\ Lt(Hi(v), Num(0)) -> -1
      [] v = Num(0) -> 0

NpNeg(a) ==
    IF a.t = "real" THEN Real(PyNeg(a.hi), PyNeg(a.lo)) ELSE PyNeg(a)

NpAdd(a, b) ==
    IF ~(IsFloat(a) /\ IsFloat(b)) THEN Raise
    ELSE IF IsReal(a) /\ IsReal(b)
         THEN Real(PyAdd(Lo(a), Lo(b)), PyAdd(Hi(a), Hi(b)))
    ELSE IF a.t = "nan" \/ b.t = "nan" THEN NaN
    ELSE IF IsReal(a) THEN b
    ELSE IF IsReal(b) THEN a
    ELSE IF a.t = b.t THEN a ELSE NaN

NpSub(a, b) == IF IsFloat(a) /\ IsFloat(b) THEN NpAdd(a, NpNeg(b)) ELSE Raise

NpMul(a, b) ==
    IF ~(IsFloat(a) /\ IsFloat(b)) THEN Raise
    ELSE IF a.t = "nan" \/ b.t = "nan" THEN NaN
    ELSE IF IsReal(a) /\ IsReal(b)
         THEN LET ps == {PyMul(x, y) : x \in {Lo(a), Hi(a)}, y \in {Lo(b), Hi(b)}}
              IN  Real(Least(ps), Greatest(ps))
    ELSE Signed(SignOf(a) * SignOf(b))

\* 1 / b for reals of one sign
Reciprocal(b) == Real(PyDiv(Num(1), Hi(b)), PyDiv(Num(1), Lo(b)))

NpDiv(a, b) ==
    IF ~(IsFloat(a) /\ IsFloat(b)) THEN Raise
    ELSE IF a.t = "nan" \/ b.t = "nan" THEN NaN
    ELSE IF b = Num(0) THEN Signed(SignOf(a))
    ELSE IF IsReal(b) THEN NpMul(a, Reciprocal(b))
    ELSE IF IsReal(a) THEN Num(0)
    ELSE NaN

\* some finite float: the bounds -inf and inf stand for no bound
AnyReal == [t |-> "real", lo |-> NegInf, hi |-> Inf]

\* np.log(x): nan below zero, -inf at zero (warnings, no exception), 0 at
\* 1 and some finite float at any other x > 0
NpLog(x) ==
    CASE ~IsFloat(x) -> Raise
      [] x.t = "nan" \/ x.t = "ninf" -> NaN
      [] x.t = "inf" -> Inf
      [] x.t = "num" ->
           IF x.n < 0 THEN NaN
           ELSE IF x.n = 0 THEN NegInf
           ELSE IF x = Num(1) THEN Num(0)
           ELSE AnyReal

\* np.sqrt(x) for x >= 0: between x and 1
NpSqrt(x) ==
    CASE ~IsFloat(x) -> Raise
      [] x.t = "nan" \/ x.t = "ninf" -> NaN
      [] x.t = "inf" -> Inf
      [] x.t = "num" ->
           IF x.n < 0 THEN NaN
           ELSE Real(PyMin(x, Num(1)), IF Gt(x, Num(1)) THEN x ELSE Num(1))

\* np.exp(x) for x <= 0: in [0, 1], and 1 at 0
NpExp(x) ==
    CASE ~IsFloat(x) -> Raise
      [] x.t = "nan" -> NaN
      [] x.t = "ninf" -> Num(0)
      [] x.t = "num" /\ x.n <= 0 -> Real(IF x.n = 0 THEN Num(1) ELSE Num(0), Num(1))

\* norm.cdf(x): in [0, 1], 0 at -inf and 1 at +inf
NormCdf(x) ==
    CASE ~IsFloat(x) -> Raise
      [] x.t = "nan" -> NaN
      [] x.t = "ninf" -> Num(0)
      [] x.t = "inf" -> Num(1)
      [] OTHER -> Real(Num(0), Num(1))

\* norm.pdf(x): in [0, 0.4], 0 at both infinities
NormPdf(x) ==
    CASE ~IsFloat(x) -> Raise
      [] x.t = "nan" -> NaN
      [] x.t \in {"inf", "ninf"} -> Num(0)
      [] OTHER -> Real(Num(0), Rat(2, 5))

\* float(value): a number is itself; a string that spells no number is a
\* ValueError, None or a mapping a TypeError
PyFloat(value) == IF IsNumeric(value) THEN value ELSE Raise

\* validate_numeric(value, min_value, max_value, default); None for an
\* absent bound
validate_numeric(value, min_value, max_value, default) ==
    LET num_value == PyFloat(value)
    IN  IF num_value = Raise THEN default
        ELSE IF min_value # NoneV /\ Lt(num_value, min_value) THEN default
        ELSE IF max_value # NoneV /\ Gt(num_value, max_value) THEN default
        ELSE num_value

\* the bounds __init__ stores
max_days_to_expiry == 365
min_iv == Rat(1, 20)
max_iv == Num(5)
min_strike == Rat(1, 10)
max_strike == Num(1000000)
risk_free_rate == Rat(1, 20)

\* str.lower() on the option types a chain row carries
Lower(v) ==
    IF v.t # "str" THEN Raise
    ELSE CASE v.s \in {"CALL", "Call"} -> Str("call")
           [] v.s \in {"PUT", "Put"} -> Str("put")
           [] OTHER -> v

\* lines 455-457: the validated strike, a ValueError when it is 0
GreeksStrike(option_data) ==
    IF option_data.t # "dict" THEN Raise
    ELSE LET strike == validate_numeric(Get(option_data, "strike", NoneV),
                                        min_strike, max_strike, Num(0))
         IN  IF strike = Num(0) THEN Raise ELSE strike

\* the volatility with 0.0 for the default
GreeksIvNoDefault(option_data) ==
    IF option_data.t # "dict" THEN Raise
    ELSE validate_numeric(Get(option_data, "impliedVolatility", Num(0)),
                          min_iv, max_iv, Num(0))

\* lines 459-460: the volatility used
GreeksIv(option_data) ==
    IF option_data.t # "dict" THEN Raise
    ELSE validate_numeric(Get(option_data, "impliedVolatility", Rat(3, 10)),
                          min_iv, max_iv, Rat(3, 10))

\* line 462: option_data.get('option_type', '').lower()
GreeksOptionType(option_data) == Lower(Get(option_data, "option_type", Str("")))

\* lines 465-468: the time to expiry in years
GreeksTime(days_to_expiry) ==
    LET t == PyDiv(validate_numeric(days_to_expiry, Num(0),
                                    Num(max_days_to_expiry), Num(0)),
                   Num(365))
    IN  IF Le(t, Num(0)) THEN Rat(1, 365) ELSE t

\* lines 471-494 for a strike, volatility and time that passed validation
BlackScholes(strike, iv, is_call, t, underlying_price, r) ==
    LET sqrt_t == NpSqrt(t)
        d1 == NpDiv(NpAdd(NpLog(NpDiv(underlying_price, strike)),
                          PyMul(PyAdd(r, PyMul(Rat(1, 2), PyMul(iv, iv))), t)),
                    NpMul(iv, sqrt_t))
        d2 == NpSub(d1, NpMul(iv, sqrt_t))
        decay == NpDiv(NpMul(NpMul(NpNeg(underlying_price), NormPdf(d1)), iv),
                       NpMul(Num(2), sqrt_t))
        discount == NpExp(PyNeg(PyMul(r, t)))
        carry(x) == NpMul(NpMul(PyMul(r, strike), discount), NormCdf(x))
        delta == IF is_call THEN NormCdf(d1) ELSE NpSub(NormCdf(d1), Num(1))
        theta == IF is_call
                 THEN NpDiv(NpSub(decay, carry(d2)), Num(365))
                 ELSE NpDiv(NpAdd(decay, carry(NpNeg(d2))), Num(365))
        gamma == NpDiv(NormPdf(d1), NpMul(PyMul(underlying_price, iv), sqrt_t))
        vega == NpDiv(NpMul(NpMul(underlying_price, sqrt_t), NormPdf(d1)),
                      Num(100))
        rho == IF is_call
               THEN NpDiv(NpMul(NpMul(PyMul(strike, t), discount), NormCdf(d2)),
                          Num(100))
               ELSE NpDiv(NpMul(NpMul(PyMul(PyNeg(strike), t), discount),
                                NormCdf(NpNeg(d2))),
                          Num(100))
    IN  IF d1 = Raise THEN Raise
        ELSE [t |-> "dict", delta |-> delta, gamma |-> gamma, theta |-> theta,
              vega |-> vega, rho |-> rho]

\* the try block of calculate_greeks
GreeksBody(option_data, underlying_price, days_to_expiry, r) ==
    LET strike == GreeksStrike(option_data)
        iv == GreeksIv(option_data)
        option_type == GreeksOptionType(option_data)
        t == GreeksTime(days_to_expiry)
    IN  IF strike = Raise \/ option_type = Raise THEN Raise
        ELSE BlackScholes(strike, iv, option_type = Str("call"), t,
                          underlying_price, r)

\* except Exception: the all-zero record
GreeksExcept(g) == IF g = Raise THEN AllZeroGreeks ELSE g

calculate_greeks(option_data, underlying_price, days_to_expiry, r) ==
    GreeksExcept(GreeksBody(option_data, underlying_price, days_to_expiry, r))

\* the local variables of a call that got past the validation
GreeksLocals(option_data, days_to_expiry) ==
    IF GreeksStrike(option_data) = Raise \/ GreeksOptionType(option_data) = Raise
    THEN NoneV
    ELSE [t |-> "dict", strike |-> GreeksStrike(option_data),
          iv |-> GreeksIv(option_data), time |-> GreeksTime(days_to_expiry)]

---------------------------------------------------------------------------
(* The Greeks calculator as a state machine; locals holds the validated     *)
(* strike, volatility and time of the call                                  *)

\* the volatilities a chain row carries are the multiples of 1/20 up to
\* MaxIvStep/20, and some out of range
MaxIvStep == 4

GreeksStrikes ==
    {Num(90), Num(100), Rat(1, 20), Num(2000000), Num(0), Missing, Str("n/a")}
GreeksIvs ==
    {Rat(k, 20) : k \in 0..MaxIvStep} \cup {Num(5), Num(6), Missing, Str("n/a")}
GreeksTypes == {Str("call"), Str("CALL"), Str("put"), Missing, NoneV}
GreeksOption(type, strike, iv) ==
    [t |-> "dict", option_type |-> type, strike |-> strike,
     impliedVolatility |-> iv, expiration |-> Str("2024-01-19")]
GreeksOptions ==
    {NoneV}
    \cup {GreeksOption(ty, k, v) :
             ty \in GreeksTypes, k \in GreeksStrikes, v \in GreeksIvs}
GreeksPrices == {Num(100), Num(110), Num(0), Num(-100), NoneV, Str("n/a")}
GreeksDays ==
    {Num(-1), Num(0), Num(1), Num(30), Num(max_days_to_expiry),
     Num(max_days_to_expiry + 1), Num(400), NoneV}

CalculateGreeks ==
    /\ pc = "idle"
    /\ \E option_data \in GreeksOptions, underlying_price \in GreeksPrices,
          days_to_expiry \in GreeksDays :
          /\ arg' = [option_data |-> option_data,
                     underlying_price |-> underlying_price,
                     days_to_expiry |-> days_to_expiry]
          /\ ret' = calculate_greeks(option_data, underlying_price,
                                     days_to_expiry, risk_free_rate)
          /\ locals' = GreeksLocals(option_data, days_to_expiry)
    /\ op' = "calculate_greeks"
    /\ pc' = "done"
    /\ UNCHANGED <<strategies, thresholds, _instance, _config, history>>

GreeksNext ==
    \/ CalculateGreeks
    \/ Return

GreeksSpec == Init /\ [][GreeksNext]_vars

---------------------------------------------------------------------------
(* Properties of calculate_greeks *)

GreeksCalled == pc = "done" /\ op = "calculate_greeks"

GreekNames == {"delta", "gamma", "theta", "vega", "rho"}

\* v is a finite float, no NaN and no infinity
FiniteFloat(v) == v.t = "num" \/ (v.t = "real" /\ v.lo.t = "num" /\ v.hi.t = "num")

\* v is a finite float in [lo, hi], for integers lo and hi
Within(v, lo, hi) ==
    /\ FiniteFloat(v)
    /\ Lo(v).n >= lo * Lo(v).d
    /\ Hi(v).n <= hi * Hi(v).d

NonNegative(v) == FiniteFloat(v) /\ Lo(v).n >= 0

AllZero(g) == \A k \in GreekNames : g[k] = Num(0)

\* the strike is missing, non-numeric or outside [0.1, 1000000]
BadStrike ==
    \/ arg.option_data.t # "dict"
    \/ arg.option_data.strike.t # "num"
    \/ 10 * arg.option_data.strike.n < arg.option_data.strike.d
    \/ arg.option_data.strike.n > 1000000 * arg.option_data.strike.d

\* the underlying price is missing, non-numeric, zero or negative
BadPrice == arg.underlying_price.t # "num" \/ arg.underlying_price.n <= 0

\* C16: calculate_greeks never raises and returns finite values only: with
\* a bad strike, a bad underlying price or a Greek that would be NaN or
\* infinite it returns the all-zero record
C16_FiniteOrAllZero ==
    GreeksCalled =>
        /\ ret.t = "dict"
        /\ \A k \in GreekNames : FiniteFloat(ret[k])
        /\ (BadStrike \/ BadPrice) => AllZero(ret)

\* what the code does keep of C16: no exception leaves the call, and a bad
\* strike or a missing or non-numeric price gives the all-zero record
C16_NoExceptionLeaves ==
    GreeksCalled =>
        /\ ret.t = "dict"
        /\ (BadStrike \/ arg.underlying_price.t # "num") => AllZero(ret)

\* the number of days the specification prices with: days_to_expiry clamped to
\* [0, 365], and 1 when that is 0
ClampedDays(d) == IF d <= 0 THEN 1 ELSE IF d > 365 THEN 365 ELSE d

\* C17: the time used is clamp(days_to_expiry, 0, max_days_to_expiry) / 365,
\* or 1/365 when that is zero, so more than 365 days are priced as 365 days;
\* the time used lies in [1/365, 365/365]
C17_TimeClamped ==
    (GreeksCalled /\ locals # NoneV /\ arg.days_to_expiry.t = "num") =>
        /\ locals.time.n * 365 = ClampedDays(arg.days_to_expiry.n) * locals.time.d
        /\ locals.time.n * 365 >= locals.time.d
        /\ locals.time.n <= locals.time.d

\* what the code does: days outside [0, 365] are priced as one day
C17_TimeOutOfRangeIsOneDay ==
    (GreeksCalled /\ locals # NoneV /\ arg.days_to_expiry.t = "num") =>
        LET d == arg.days_to_expiry.n
        IN  /\ (d <= 0 \/ d > 365) => locals.time = Rat(1, 365)
            /\ (0 < d /\ d <= 365) => locals.time = Rat(d, 365)

\* the supplied impliedVolatility is a number in [0.05, 5.0]
IvInRange(v) == v.t = "num" /\ 20 * v.n >= v.d /\ v.n <= 5 * v.d

TypedCall ==
    /\ arg.option_data.t = "dict" /\ arg.option_data.option_type.t = "str"
    /\ arg.option_data.option_type.s \in {"call", "CALL"}

GreeksBounds ==
    /\ ret.t = "dict"
    /\ IF TypedCall THEN Within(ret.delta, 0, 1) ELSE Within(ret.delta, -1, 0)
    /\ NonNegative(ret.gamma)
    /\ NonNegative(ret.vega)

\* C19: delta is in [0, 1] for a call and in [-1, 0] for a put, gamma >= 0
\* and vega >= 0, in every record calculate_greeks can return
C19_BoundsOfEveryRecord == GreeksCalled => GreeksBounds

\* the part of C19 about a valid strike and an underlying price > 0
C19_BoundsOnValidInput == (GreeksCalled /\ ~BadStrike /\ ~BadPrice) => GreeksBounds

---------------------------------------------------------------------------
(* OptionsScraper.get_volatility_metrics                                    *)
(*                                                                         *)
(* The quote service (yfinance) is the environment.  One answer of it is a  *)
(* record:                                                                  *)
(*   raises   the service fails with an exception                           *)
(*   closes   the number of rows of the one-year price history              *)
(*   std      returns.std() * np.sqrt(252) as pandas computes it on the     *)
(*            closes - 1 returns: NaN on fewer than two returns             *)
(*   options  the expirations, price the value of regularMarketPrice        *)
(*            (Missing when the quote lacks it), calls the rows of the      *)
(*            call chain                                                    *)

VolMetrics(hv, iv, rank, percentile) ==
    [t |-> "dict", historical_volatility |-> hv, current_iv |-> iv,
     iv_rank |-> rank, iv_percentile |-> percentile]

\* _get_default_volatility_metrics(hv)
_get_default_volatility_metrics(hv) == VolMetrics(hv, Num(0), Num(0), Num(0))

\* a == b between floats: NaN equals nothing
FloatEq(a, b) == a.t # "nan" /\ b.t # "nan" /\ a = b

\* abs(x - current_price), the key of line 549
AtmKey(row, current_price) == PyAbs(PySub(row.strike, current_price))

\* min(chain.calls['strike'], key=...): the first strike no strike is
\* nearer than
AtmStrike(calls, current_price) ==
    LET i == CHOOSE i \in 1..Len(calls) :
                 /\ \A j \in 1..Len(calls) :
                       ~Lt(AtmKey(calls[j], current_price),
                           AtmKey(calls[i], current_price))
                 /\ \A j \in 1..(i - 1) :
                       Lt(AtmKey(calls[i], current_price),
                          AtmKey(calls[j], current_price))
    IN  calls[i].strike

\* the quotient of line 559 without its guard
IvRankUnguarded(current_iv, hv) == NpDiv(NpSub(current_iv, hv), hv)

\* line 559: hv != 0 is true of NaN
IvRank(current_iv, hv) ==
    IF hv # Num(0) THEN NpDiv(NpSub(current_iv, hv), hv) ELSE Num(0)

\* the try block of get_volatility_metrics
VolBody(quote) ==
    IF quote.raises THEN Raise
    ELSE IF quote.closes = 0 THEN _get_default_volatility_metrics(Num(0))
    ELSE
    LET hv == quote.std
        current_price == IF quote.price = Missing THEN Num(0) ELSE quote.price
        calls == quote.calls
        atm_strike == AtmStrike(calls, current_price)
        IsAtm(row) == FloatEq(row.strike, atm_strike)
        atm_call == SelectSeq(calls, IsAtm)
        current_iv == atm_call[1].impliedVolatility
        iv_rank == IvRank(current_iv, hv)
        iv_percentile == NpMul(NormCdf(iv_rank), Num(100))
    IN  IF Len(quote.options) = 0 THEN _get_default_volatility_metrics(hv)
        ELSE IF ~IsNumeric(current_price) THEN Raise
        ELSE IF Le(current_price, Num(0)) THEN _get_default_volatility_metrics(hv)
        ELSE IF Len(calls) = 0 THEN Raise
        ELSE IF Len(atm_call) = 0 THEN _get_default_volatility_metrics(hv)
        ELSE VolMetrics(hv, current_iv, iv_rank, iv_percentile)

\* except Exception: return self._get_default_volatility_metrics()
VolExcept(r) == IF r = Raise THEN _get_default_volatility_metrics(Num(0)) ELSE r

\* retry_on_error calls the method once more only after an exception, and
\* none leaves the method
get_volatility_metrics(quote) == VolExcept(VolBody(quote))

---------------------------------------------------------------------------
(* The volatility analyzer as a state machine *)

\* histories have up to MaxCloses rows
MaxCloses == 4

\* what returns.std() * np.sqrt(252) can be on n returns
StdOf(n) == IF n < 2 THEN {NaN} ELSE {Num(0), Rat(1, 5), Rat(2, 5)}

CallRow(strike, iv) == [strike |-> strike, impliedVolatility |-> iv]
CallChains ==
    {<<>>, <<CallRow(NaN, Rat(1, 5))>>,
     <<CallRow(Num(95), Rat(1, 5)), CallRow(Num(105), Rat(3, 10))>>,
     <<CallRow(Num(90), Rat(1, 10)), CallRow(Num(100), Rat(2, 5)),
       CallRow(Num(110), Rat(1, 2))>>}
QuotePrices == {Num(100), Num(0), Num(-1), Missing, NoneV}
Quotes ==
    {[raises |-> f, closes |-> n, std |-> sd, options |-> o, price |-> p,
      calls |-> c] :
        f \in BOOLEAN, n \in {0}, sd \in {NaN}, o \in {<<>>},
        p \in {Num(100)}, c \in {<<>>}}
    \cup {[raises |-> FALSE, closes |-> n, std |-> sd, options |-> o,
           price |-> p, calls |-> c] :
             n \in 1..MaxCloses, sd \in {NaN, Num(0), Rat(1, 5), Rat(2, 5)},
             o \in {<<>>, <<"2024-01-19", "2024-02-16">>},
             p \in QuotePrices, c \in CallChains}

GetVolatilityMetrics ==
    /\ pc = "idle"
    /\ \E quote \in Quotes :
          /\ quote.closes > 0 => quote.std \in StdOf(quote.closes - 1)
          /\ arg' = quote
          /\ ret' = get_volatility_metrics(quote)
    /\ op' = "get_volatility_metrics"
    /\ pc' = "done"
    /\ UNCHANGED <<strategies, thresholds, _instance, _config, history, locals>>

VolNext ==
    \/ GetVolatilityMetrics
    \/ Return

VolSpec == Init /\ [][VolNext]_vars

---------------------------------------------------------------------------
(* Properties of get_volatility_metrics *)

VolCalled == pc = "done" /\ op = "get_volatility_metrics"

\* the return series is empty: the history has no row or a single one
NoReturns == ~arg.raises /\ arg.closes <= 1

\* no row of the call chain is at the money: no row at all, or a strike that
\* equals nothing
NoAtmCall ==
    \/ Len(arg.calls) = 0
    \/ \A i \in 1..Len(arg.calls) : arg.calls[i].strike.t # "num"

\* one of the conditions under which the default record is due
VolDataMissing ==
    \/ arg.raises
    \/ arg.closes <= 1
    \/ Len(arg.options) = 0
    \/ arg.price.t # "num" \/ arg.price.n <= 0
    \/ NoAtmCall

VolZeroed ==
    /\ ret.current_iv = Num(0) /\ ret.iv_rank = Num(0)
    /\ ret.iv_percentile = Num(0)

\* C20: get_volatility_metrics never raises; without price history, return
\* series, expirations, positive price or ATM call, or on an internal
\* error, current_iv, iv_rank and iv_percentile are 0 and
\* historical_volatility is 0 or the value computed; with an empty return
\* series the whole record is zero
C20_DefaultOnMissingData ==
    VolCalled =>
        /\ ret.t = "dict"
        /\ VolDataMissing =>
              /\ VolZeroed
              /\ ret.historical_volatility \in {Num(0), arg.std}
        /\ NoReturns => VolZeroed /\ ret.historical_volatility = Num(0)

\* what the code keeps of C20: the same with a history of two rows or more,
\* or none
C20_DefaultUnlessSingleRow ==
    (VolCalled /\ (arg.raises \/ arg.closes # 1)) =>
        /\ ret.t = "dict"
        /\ VolDataMissing =>
              /\ VolZeroed
              /\ ret.historical_volatility \in {Num(0), arg.std}
        /\ NoReturns => VolZeroed /\ ret.historical_volatility = Num(0)

\* the call reaches line 559: a history, expirations, a positive price and an
\* ATM call
VolNormalPath ==
    /\ VolCalled /\ ~arg.raises /\ arg.closes >= 1
    /\ Len(arg.options) > 0
    /\ arg.price.t = "num" /\ arg.price.n > 0
    /\ ~NoAtmCall

\* rank = (iv - hv) / hv between finite numbers, hv # 0
RankIsQuotient(rank, iv, hv) ==
    /\ rank.t = "num"
    /\ rank.n * (iv.d * hv.n) = (iv.n * hv.d - hv.n * iv.d) * rank.d

\* C21: on the normal path of get_volatility_metrics iv_rank is
\* (current_iv - historical_volatility) / historical_volatility when
\* historical_volatility is not 0 (NaN when it is NaN) and 0 when it is 0; no
\* division by zero happens: iv_rank is never infinite and no exception
\* replaces the record
C21_IvRankGuarded ==
    VolNormalPath =>
        LET hv == ret.historical_volatility
            iv == ret.current_iv
            rank == ret.iv_rank
        IN  /\ hv = arg.std /\ iv.t = "num" /\ iv.n > 0
            /\ (hv.t = "num" /\ hv.n = 0) => rank = Num(0)
            /\ (hv.t = "num" /\ hv.n # 0) => RankIsQuotient(rank, iv, hv)
            /\ hv.t = "nan" => rank.t = "nan"
            /\ rank.t \notin {"inf", "ninf"}

\* a normal call with a history of no volatility
C21_Witness ==
    /\ VolNormalPath /\ arg.std = Num(0)
    /\ ret.current_iv = Rat(2, 5) /\ ret.iv_rank = Num(0)

\* a normal call whose iv_rank is a true quotient: (0.4 - 0.2) / 0.2 = 1
C21_QuotientReached ==
    /\ VolNormalPath /\ arg.std = Rat(1, 5)
    /\ ret.current_iv = Rat(2, 5) /\ ret.iv_rank = Num(1)

---------------------------------------------------------------------------
(* Failure handling of simulate_strategy *)

\* the record {scenarios: [], pnl: [], max_profit: 0, max_loss: 0,
\* breakeven_points: []}
EmptySimulation(r) ==
    /\ r.t = "dict"
    /\ r.scenarios.t = "list" /\ Len(r.scenarios.v) = 0
    /\ r.pnl.t = "list" /\ Len(r.pnl.v) = 0
    /\ r.max_profit = Num(0) /\ r.max_loss = Num(0)
    /\ r.breakeven_points.t = "list" /\ Len(r.breakeven_points.v) = 0

\* options_data is None or {}, or underlying_price is None or 0
SimDataMissing ==
    \/ arg.options_data.t = "none"
    \/ arg.options_data = EmptyOptions
    \/ arg.underlying_price.t = "none"
    \/ arg.underlying_price = Num(0)

\* an operation of the body raises: a string price is scaled into a string
\* np.linspace rejects, option_data None has no get, and a long call or put
\* subtracts a string strike or lastPrice from a float
SimInternalError ==
    /\ ~SimDataMissing
    /\ \/ arg.underlying_price.t = "str"
       \/ arg.options_data.option_data.t = "none"
       \/ /\ arg.options_data.option_data.t = "dict"
          /\ arg.strategy \in {"long_call", "long_put"}
          /\ \/ arg.options_data.option_data.strike.t = "str"
             \/ arg.options_data.option_data.lastPrice.t = "str"

\* C22: simulate_strategy never raises; it returns the empty record when
\* options_data is empty or None, when underlying_price is 0 or None, and
\* when an internal error occurs (a non-numeric strike or lastPrice in a
\* payoff, a non-numeric price, an option_data that is no mapping)
C22_SimulateFailsSafe ==
    Simulated =>
        /\ ret.t = "dict"
        /\ (SimDataMissing \/ SimInternalError) => EmptySimulation(ret)

\* a long put on a string strike, at a price of 100, answered with the empty
\* record
C22_Witness ==
    /\ Simulated /\ arg.strategy = "long_put"
    /\ arg.underlying_price = Num(100)
    /\ arg.options_data.t = "dict" /\ arg.options_data.option_data.t = "dict"
    /\ arg.options_data.option_data.strike = Str("n/a")
    /\ arg.options_data.option_data.lastPrice = Num(5)
    /\ EmptySimulation(ret)

\* a strategy without payoff formula never reads the strike: a string strike
\* is no error there, and the record holds 100 payoffs of 0
C22_UnusedStrikeIsNoError ==
    ( /\ Simulated /\ ~SimDataMissing /\ ~SimInternalError
      /\ arg.strategy = "iron_condor" ) =>
        /\ Len(ret.pnl.v) = NumScenarios
        /\ \A i \in 1..NumScenarios : ret.pnl.v[i] = Num(0)

---------------------------------------------------------------------------
(* Repeated calls: the caller keeps one call with its result and goes on    *)
(* calling the four methods of the advisor in any order                     *)

\* a snapshot whose 5-day move is a and whose 1-month move is b
Snapshot(a, b) ==
    Underlying(Hist(Window(Num(100), Num(100 + a), Rat(1, 5)),
                    Window(Num(100), Num(100 + b), Rat(1, 4)),
                    Window(Num(100), Num(101), Rat(3, 10))))

RepeatedUnderlyings ==
    {NoneV, Underlying(Missing), Snapshot(3, 6), Snapshot(-3, -6),
     Snapshot(2, 6)}
RepeatedOptions ==
    {NoneV,
     Option(Str("call"), Num(100), Num(5), [t |-> "dict", delta |-> Rat(1, 2)]),
     Option(Str("put"), Num(100), Num(5), [t |-> "dict", delta |-> Rat(-1, 2)]),
     Option(Str("call"), Str("n/a"), Num(5), [t |-> "dict", delta |-> Num(1)]),
     Option(Str("call"), Num(100), Num(5), NoneV)}
RepeatedOptionsData ==
    {NoneV}
    \cup {[t |-> "dict", underlying_data |-> u, option_data |-> o,
           volatility_metrics |-> [t |-> "dict", iv_percentile |-> Num(71)],
           days_to_expiry |-> Num(30)] :
             u \in {Snapshot(3, 6), Snapshot(-3, -6), Underlying(Missing)},
             o \in RepeatedOptions \ {NoneV}}
RepeatedSimInputs ==
    {NoneV,
     [t |-> "dict", underlying_data |-> Missing,
      option_data |-> Option(Str("call"), Num(100), Num(5), Missing),
      volatility_metrics |-> Missing, days_to_expiry |-> Num(30)]}
RepeatedPrices == {Num(100), Num(0)}

\* the caller takes the result and keeps the call
Keep ==
    /\ pc = "done"
    /\ history' = [op |-> op, arg |-> arg, ret |-> ret]
    /\ pc' = "idle"
    /\ op' = "none"
    /\ arg' = NoneV
    /\ ret' = NoneV
    /\ locals' = NoneV
    /\ UNCHANGED <<strategies, thresholds, _instance, _config>>

RepeatedNext ==
    \/ AnalyzeMarketConditionsOf(RepeatedUnderlyings)
    \/ CalculateRiskMetricsOf(RepeatedOptions)
    \/ RecommendStrategyOf(RepeatedOptionsData)
    \/ SimulateStrategyOf(SimStrategies, RepeatedSimInputs, RepeatedPrices)
    \/ Keep
    \/ Return

RepeatedSpec == Init /\ [][RepeatedNext]_vars

\* the call that ends is the call the caller has kept, made once more
CallRepeated ==
    /\ pc = "done" /\ history # NoneV
    /\ history.op = op /\ history.arg = arg

---------------------------------------------------------------------------
(* Failure handling of recommend_strategy *)

\* the five risk metrics are 0
AllZeroRisk(m) ==
    /\ m.max_loss = Num(0) /\ m.max_profit = Num(0) /\ m.breakeven = Num(0)
    /\ m.prob_profit = Num(0) /\ m.risk_adjusted_return = Num(0)

\* the default recommendation, field by field
DefaultRecommendation(r) ==
    /\ r.t = "dict"
    /\ r.market_bias = "neutral" /\ r.recommended_strategy = "iron_condor"
    /\ r.position_size = 0
    /\ AllZeroRisk(r.risk_metrics)
    /\ r.option_details.strike = Num(0)
    /\ r.option_details.expiration = Str("")
    /\ r.option_details.type = Str("unknown")

\* the snapshot of the input is classified neutral: anything but a priced
\* snapshot with volatilities and a momentum beyond both thresholds
NeutralInput(o) ==
    LET u == o.underlying_data
    IN  ~( /\ u.t = "dict" /\ HasMomentum(u) /\ HasVolatilities(u)
           /\ BiasOfMomentum(u) # "neutral" )

\* an operation of the body raises on a non-empty input: underlying_data or
\* option_data is present and no mapping (get on None), or the neutral
\* branch reads an iv_percentile it cannot compare with 70
RecommendInternalError(o) ==
    /\ ~Falsy(o)
    /\ \/ ~SectionsAreMappings(o)
       \/ NeutralInput(o) /\ ~IvReadable(o)

\* C24: recommend_strategy never raises; on empty or None options_data and
\* on an internal error it returns the default recommendation; a returned
\* recommendation whose risk metrics are all zero has position_size 0
C24_RecommendFailsSafe ==
    Recommended =>
        /\ ret.t = "dict"
        /\ (Falsy(arg) \/ RecommendInternalError(arg)) =>
               DefaultRecommendation(ret)
        /\ AllZeroRisk(ret.risk_metrics) => ret.position_size = 0

\* a bullish snapshot with option_data None: the default recommendation
C24_Witness ==
    /\ Recommended /\ arg.t = "dict"
    /\ arg.underlying_data.t = "dict" /\ HasMomentum(arg.underlying_data)
    /\ HasVolatilities(arg.underlying_data)
    /\ BiasOfMomentum(arg.underlying_data) = "bullish"
    /\ arg.option_data.t = "none"
    /\ DefaultRecommendation(ret)

\* a bullish recommendation on an option without usable strike: the risk
\* metrics are the all-zero record and no contract is sized
C24_SentinelUnsized ==
    /\ Recommended /\ ret.market_bias = "bullish"
    /\ arg.option_data.t = "dict" /\ arg.option_data.strike.t = "str"
    /\ AllZeroRisk(ret.risk_metrics) /\ ret.position_size = 0

---------------------------------------------------------------------------
(* The strategy and the contract of a recommendation *)

\* the names __init__ lists under each bias
ListedStrategies ==
    [bullish |-> {"long_call", "bull_call_spread", "diagonal_spread"},
     bearish |-> {"long_put", "bear_put_spread", "ratio_backspread"},
     neutral |-> {"iron_condor", "short_straddle", "short_strangle"}]

\* C27: every recommendation, the default one included, reports a
\* market_bias among bullish, bearish and neutral and a recommended_strategy
\* the advisor's strategies table lists under that bias
C27_StrategyListedForBias ==
    Recommended =>
        /\ ret.market_bias \in {"bullish", "bearish", "neutral"}
        /\ ret.recommended_strategy \in ListedStrategies[ret.market_bias]
        /\ \E i \in 1..Len(strategies[ret.market_bias]) :
               strategies[ret.market_bias][i] = ret.recommended_strategy

\* a bearish recommendation of a long put
C27_Witness ==
    /\ Recommended /\ ret.market_bias = "bearish"
    /\ ret.recommended_strategy = "long_put"

\* C28: a recommendation of long_call reports a contract of type call, a
\* recommendation of long_put a contract of type put
C28_ContractMatchesStrategy ==
    Recommended =>
        /\ ret.recommended_strategy = "long_call" =>
               ret.option_details.type = Str("call")
        /\ ret.recommended_strategy = "long_put" =>
               ret.option_details.type = Str("put")

\* what decides long_call and long_put: the bias and the return alone
C28_StrategyFollowsBias ==
    Recommended =>
        /\ ret.recommended_strategy = "long_call" =>
               ret.market_bias = "bullish" /\ ReturnAbove2(ret)
        /\ ret.recommended_strategy = "long_put" =>
               ret.market_bias = "bearish" /\ ReturnAbove2(ret)

\* a long call recommended on a put, sized with the put's max_loss
C28_LongCallOnPut ==
    /\ Recommended /\ ret.recommended_strategy = "long_call"
    /\ arg.option_data.option_type = Str("put")
    /\ ret.option_details.type = Str("put")
    /\ ret.position_size > 0

---------------------------------------------------------------------------
(* Failed Greeks in the risk metrics *)

\* the contract carries the all-zero record of calculate_greeks, or no
\* greeks entry
GreeksFailed(o) ==
    /\ o.t = "dict" /\ o # EmptyOption
    /\ \/ o.greeks.t = "missing"
       \/ /\ o.greeks.t = "dict" /\ DOMAIN o.greeks = DOMAIN AllZeroGreeks
          /\ \A g \in {"delta", "gamma", "theta", "vega", "rho"} :
                 o.greeks[g] = Num(0)

\* the same contract with a greeks entry of delta 0
WithDeltaZero(o) == [o EXCEPT !.greeks = [t |-> "dict", delta |-> Num(0)]]

\* C29 as stated: failed or absent Greeks give prob_profit = 1
C29_FailedGreeksCertain ==
    (RiskComputed /\ GreeksFailed(arg)) => ret.prob_profit = Num(1)

\* C29 amended: failed or absent Greeks give the record of the same contract
\* with delta 0, whose prob_profit is 1 when option_type is present and
\* strike and lastPrice are absent or numeric, and 0 (the all-zero record)
\* otherwise
C29_FailedGreeksAsDeltaZero ==
    (RiskComputed /\ GreeksFailed(arg)) =>
        /\ ret = calculate_risk_metrics(WithDeltaZero(arg), Num(100))
        /\ ret.prob_profit =
               IF /\ arg.option_type.t # "missing"
                  /\ AbsentOrNumeric(arg.strike)
                  /\ AbsentOrNumeric(arg.lastPrice)
               THEN Num(1) ELSE Num(0)

\* a priced call with the all-zero Greeks record: prob_profit 1
C29_Witness ==
    /\ RiskComputed /\ PricedOption(arg, "call") /\ arg.lastPrice.n > 0
    /\ arg.greeks = AllZeroGreeks
    /\ ret.prob_profit = Num(1)

\* a priced put without greeks entry: prob_profit 1
C29_AbsentGreeksCertain ==
    /\ RiskComputed /\ PricedOption(arg, "put") /\ arg.lastPrice.n > 0
    /\ arg.greeks.t = "missing"
    /\ ret.prob_profit = Num(1)

---------------------------------------------------------------------------
(* retry_on_error: the wrapper it puts around a function                    *)
(*                                                                         *)
(* The wrapped function is the environment: each invocation returns a      *)
(* value or raises.  locals holds the loop variable attempt and the trace  *)
(* of what the wrapper has done: invocations with their outcome and sleeps *)
(* with their length.  pc is "try" before an invocation, "except" in the   *)
(* handler of a failed one and "exhausted" when range(max_retries) is      *)
(* used up.                                                                 *)

\* max_retries ranges over 0..MaxRetries
MaxRetries == 4

\* the delays a wrapper is built with, and the values a function returns
Delays == {0, 1, 2}
Results == {Num(1), Str("ok"), NoneV}

\* the exception invocation k raises
Raised(k) == [t |-> "raise", invocation |-> k]

Invocation(outcome) == [e |-> "invoke", outcome |-> outcome]
Slept(secs) == [e |-> "sleep", secs |-> secs]

\* a slip: the test of the last attempt compares with max_retries
LastAttemptOffByOne(attempt, max_retries) == attempt = max_retries

\* attempt == max_retries - 1
LastAttempt(attempt, max_retries) == attempt = max_retries - 1

\* wrapper(*args, **kwargs) is entered: the for loop takes its first value
CallWrapper ==
    /\ pc = "idle"
    /\ \E max_retries \in 0..MaxRetries, delay \in Delays :
          /\ arg' = [max_retries |-> max_retries, delay |-> delay]
          /\ pc' = IF max_retries > 0 THEN "try" ELSE "exhausted"
    /\ op' = "wrapper"
    /\ ret' = NoneV
    /\ locals' = [attempt |-> 0, trace |-> <<>>]
    /\ UNCHANGED <<strategies, thresholds, _instance, _config, history>>

\* return func(*args, **kwargs): the invocation returns a value
InvokeReturns ==
    /\ pc = "try" /\ op = "wrapper"
    /\ \E value \in Results :
          /\ locals' = [locals EXCEPT !.trace = Append(@, Invocation(value))]
          /\ ret' = value
    /\ pc' = "done"
    /\ UNCHANGED <<op, arg, strategies, thresholds, _instance, _config, history>>

\* func raises: the handler is entered
InvokeRaises ==
    /\ pc = "try" /\ op = "wrapper"
    /\ locals' = [locals EXCEPT
                     !.trace = Append(@, Invocation(Raised(locals.attempt + 1)))]
    /\ pc' = "except"
    /\ UNCHANGED <<op, arg, ret, strategies, thresholds, _instance, _config, history>>

\* the handler on the last attempt: raise
Reraise ==
    /\ pc = "except" /\ op = "wrapper"
    /\ LastAttempt(locals.attempt, arg.max_retries)
    /\ ret' = locals.trace[Len(locals.trace)].outcome
    /\ pc' = "done"
    /\ UNCHANGED <<op, arg, locals, strategies, thresholds, _instance, _config, history>>

\* the handler on an earlier attempt: time.sleep(delay), then the loop takes
\* its next value
Sleep ==
    /\ pc = "except" /\ op = "wrapper"
    /\ ~LastAttempt(locals.attempt, arg.max_retries)
    /\ locals' = [attempt |-> locals.attempt + 1,
                  trace |-> Append(locals.trace, Slept(arg.delay))]
    /\ pc' = IF locals.attempt + 1 < arg.max_retries THEN "try" ELSE "exhausted"
    /\ UNCHANGED <<op, arg, ret, strategies, thresholds, _instance, _config, history>>

\* return None after the loop
Exhausted ==
    /\ pc = "exhausted" /\ op = "wrapper"
    /\ ret' = NoneV
    /\ pc' = "done"
    /\ UNCHANGED <<op, arg, locals, strategies, thresholds, _instance, _config, history>>

RetryNext ==
    \/ CallWrapper
    \/ InvokeReturns
    \/ InvokeRaises
    \/ Reraise
    \/ Sleep
    \/ Exhausted
    \/ Return

RetrySpec == Init /\ [][RetryNext]_vars

---------------------------------------------------------------------------
(* Properties of retry_on_error *)

WrapperDone == pc = "done" /\ op = "wrapper"

\* the wrapper's steps alternate invocation, sleep, invocation, ... and end
\* with an invocation
Alternating(trace) ==
    /\ Len(trace) % 2 = 1
    /\ \A i \in 1..Len(trace) :
          trace[i].e = IF i % 2 = 1 THEN "invoke" ELSE "sleep"

\* C25: for max_retries >= 1 a call of the wrapper invokes the function at
\* most max_retries times; every invocation but the last one made has
\* raised and was followed by exactly one sleep of delay; the last one made
\* either returned, and the wrapper returns its value, or is invocation
\* number max_retries and raised, and its exception leaves the wrapper; no
\* sleep follows the last invocation
C25_RetryPolicy ==
    (WrapperDone /\ arg.max_retries >= 1) =>
        LET trace == locals.trace
            n == (Len(trace) + 1) \div 2
            last == trace[Len(trace)]
        IN  /\ Len(trace) > 0 /\ Alternating(trace)
            /\ n <= arg.max_retries
            /\ \A k \in 1..(n - 1) :
                  /\ trace[2 * k - 1].outcome.t = "raise"
                  /\ trace[2 * k].secs = arg.delay
            /\ ret = last.outcome
            /\ last.outcome.t = "raise" =>
                  n = arg.max_retries /\ last.outcome.invocation = n

\* three invocations of four allowed: two failures, each slept on, and a
\* value
C25_Witness ==
    /\ WrapperDone /\ arg.max_retries = 4 /\ arg.delay = 2
    /\ Len(locals.trace) = 5 /\ ret = Str("ok")

\* every invocation allowed has failed: the last exception leaves, after
\* max_retries - 1 sleeps
C25_AllFailed ==
    /\ WrapperDone /\ arg.max_retries = 3
    /\ Len(locals.trace) = 5 /\ ret = Raised(3)

\* with max_retries = 0 the function is never invoked and the wrapper
\* returns None
C25_NoAttempt ==
    (WrapperDone /\ arg.max_retries = 0) =>
        locals.trace = <<>> /\ ret = NoneV

---------------------------------------------------------------------------
(* get_comprehensive_option_data under retry_on_error(max_retries=3,       *)
(* delay=2)                                                                *)
(*                                                                         *)
(* One attempt is the body of the method taken step by step: the four      *)
(* input checks, then get_underlying_data, the option chain fetch,         *)
(* calculate_greeks, get_volatility_metrics and get_volume_analysis.       *)
(* Market data is the environment: a retrieval step succeeds or raises.    *)
(* locals.trace lists the steps started, over all attempts, and the sleeps *)
(* of the wrapper between them.                                            *)

\* the arguments of the decorator at line 344
comprehensive_max_retries == 3
comprehensive_delay == 2

\* the arguments a caller passes
Tickers == {Str("SPY"), Str(""), NoneV, Num(7)}
Expirations == {Str("2024-01-19"), Str("01/19/2024"), Str(""), NoneV}
RequestedStrikes ==
    {Num(100), Rat(1, 10), Num(1000000), Num(0), Rat(1, 20), Num(0 - 5),
     Num(1000001), Str("n/a"), NoneV}
RequestedTypes == {Str("call"), Str("PUT"), Str("straddle"), Str(""), NoneV}

\* the strings among them that have the form %Y-%m-%d
IsoDates == {"2024-01-19"}

\* datetime.strptime(date_str, '%Y-%m-%d') on the dates above: a TypeError
\* for a value that is no string, a ValueError for a string of another
\* format
ValueError(message) == [t |-> "raise", type |-> "ValueError", message |-> message]
TypeError == [t |-> "raise", type |-> "TypeError"]
AttributeError == [t |-> "raise", type |-> "AttributeError"]
strptime(date_str) ==
    IF date_str.t # "str" THEN TypeError
    ELSE IF date_str.s \in IsoDates THEN date_str
    ELSE ValueError("format")

\* validate_date(date_str): the default None on a ValueError; any other
\* exception leaves it
validate_date(date_str) ==
    LET parsed == strptime(date_str)
    IN  IF parsed.t # "raise" THEN date_str
        ELSE IF parsed.type = "ValueError" THEN NoneV
        ELSE parsed

\* a slip: the option type is lower-cased but never compared with 'call'
\* and 'put'
ValidateInputsAnyType(ticker, expiration, strike, option_type) ==
    LET date == validate_date(expiration)
        num == validate_numeric(strike, min_strike, max_strike, Num(0))
    IN  IF ticker.t # "str" \/ ticker.s = "" THEN ValueError("Invalid ticker symbol")
        ELSE IF date.t = "raise" THEN date
        ELSE IF date = NoneV THEN ValueError("Invalid expiration date")
        ELSE IF num = Num(0) THEN ValueError("Invalid strike price")
        ELSE IF option_type.t # "str" THEN AttributeError
        ELSE [t |-> "dict", expiration |-> date, strike |-> num,
              option_type |-> Lower(option_type)]

\* lines 363-376: the checks of ticker, expiration, strike and option type,
\* in this order; the validated values, or the exception of the first check
\* that fails
ValidateInputs(ticker, expiration, strike, option_type) ==
    LET date == validate_date(expiration)
        num == validate_numeric(strike, min_strike, max_strike, Num(0))
    IN  IF ticker.t # "str" \/ ticker.s = "" THEN ValueError("Invalid ticker symbol")
        ELSE IF date.t = "raise" THEN date
        ELSE IF date = NoneV THEN ValueError("Invalid expiration date")
        ELSE IF num = Num(0) THEN ValueError("Invalid strike price")
        ELSE IF option_type.t # "str" THEN AttributeError
        ELSE IF Lower(option_type).s \notin {"call", "put"}
             THEN ValueError("Invalid option type")
        ELSE [t |-> "dict", expiration |-> date, strike |-> num,
              option_type |-> Lower(option_type)]

Comprehensive == op = "get_comprehensive_option_data"

\* a step of the method is started
Step(name) == [e |-> name]
Started(name) == locals' = [locals EXCEPT !.trace = Append(@, Step(name))]

\* the wrapper is entered and calls the method for the first time
CallComprehensive ==
    /\ pc = "idle"
    /\ \E ticker \in Tickers, expiration \in Expirations,
          strike \in RequestedStrikes, option_type \in RequestedTypes :
          arg' = [ticker |-> ticker, expiration |-> expiration,
                  strike |-> strike, option_type |-> option_type]
    /\ op' = "get_comprehensive_option_data"
    /\ ret' = NoneV
    /\ locals' = [attempt |-> 0, trace |-> <<>>]
    /\ pc' = "validate"
    /\ UNCHANGED <<strategies, thresholds, _instance, _config, history>>

\* lines 360-376: the inputs are checked; the first failing check raises
StepValidate ==
    /\ pc = "validate" /\ Comprehensive
    /\ Started("validate")
    /\ LET v == ValidateInputs(arg.ticker, arg.expiration, arg.strike,
                               arg.option_type)
       IN  /\ ret' = v
           /\ pc' = IF v.t = "raise" THEN "except" ELSE "underlying"
    /\ UNCHANGED <<op, arg, strategies, thresholds, _instance, _config, history>>

\* lines 379-381: get_underlying_data returns its record or re-raises what
\* the market data source raised
StepUnderlyingData ==
    /\ pc = "underlying" /\ Comprehensive
    /\ Started("get_underlying_data")
    /\ \/ pc' = "chain" /\ ret' = ret
       \/ pc' = "except" /\ ret' = Raised(locals.attempt + 1)
    /\ UNCHANGED <<op, arg, strategies, thresholds, _instance, _config, history>>

\* lines 384-393: the chain is fetched and the row of the strike taken; the
\* fetch may raise, and no row is a ValueError
StepOptionChain ==
    /\ pc = "chain" /\ Comprehensive
    /\ Started("option_chain")
    /\ \/ pc' = "greeks" /\ ret' = ret
       \/ pc' = "except" /\ ret' = Raised(locals.attempt + 1)
       \/ pc' = "except" /\ ret' = ValueError("No option found for strike")
    /\ UNCHANGED <<op, arg, strategies, thresholds, _instance, _config, history>>

\* lines 399-413: calculate_greeks, which always returns a record
StepGreeks ==
    /\ pc = "greeks" /\ Comprehensive
    /\ Started("calculate_greeks")
    /\ pc' = "volatility"
    /\ UNCHANGED <<op, arg, ret, strategies, thresholds, _instance, _config, history>>

\* line 416: get_volatility_metrics, which always returns a record
StepVolatility ==
    /\ pc = "volatility" /\ Comprehensive
    /\ Started("get_volatility_metrics")
    /\ pc' = "volume"
    /\ UNCHANGED <<op, arg, ret, strategies, thresholds, _instance, _config, history>>

\* lines 419-431: get_volume_analysis, which always returns a record; the
\* result is returned through the wrapper
StepVolume ==
    /\ pc = "volume" /\ Comprehensive
    /\ Started("get_volume_analysis")
    /\ pc' = "done"
    /\ UNCHANGED <<op, arg, ret, strategies, thresholds, _instance, _config, history>>

\* lines 433-435 re-raise into the wrapper's handler; on the last attempt
\* the exception leaves the wrapper
ComprehensiveReraise ==
    /\ pc = "except" /\ Comprehensive
    /\ LastAttempt(locals.attempt, comprehensive_max_retries)
    /\ pc' = "done"
    /\ UNCHANGED <<op, arg, ret, locals, strategies, thresholds, _instance, _config, history>>

\* on an earlier attempt the wrapper sleeps and calls the method again
ComprehensiveRetry ==
    /\ pc = "except" /\ Comprehensive
    /\ ~LastAttempt(locals.attempt, comprehensive_max_retries)
    /\ locals' = [attempt |-> locals.attempt + 1,
                  trace |-> Append(locals.trace, Slept(comprehensive_delay))]
    /\ ret' = NoneV
    /\ pc' = "validate"
    /\ UNCHANGED <<op, arg, strategies, thresholds, _instance, _config, history>>

ComprehensiveNext ==
    \/ CallComprehensive
    \/ StepValidate
    \/ StepUnderlyingData
    \/ StepOptionChain
    \/ StepGreeks
    \/ StepVolatility
    \/ StepVolume
    \/ ComprehensiveReraise
    \/ ComprehensiveRetry
    \/ Return

ComprehensiveSpec == Init /\ [][ComprehensiveNext]_vars

---------------------------------------------------------------------------
(* Properties of get_comprehensive_option_data *)

RetrievalSteps ==
    {"get_underlying_data", "option_chain", "calculate_greeks",
     "get_volatility_metrics", "get_volume_analysis"}

\* the number of times a step occurs in a trace, and the names of its steps
Occurrences(trace, name) == Cardinality({i \in 1..Len(trace) : trace[i].e = name})
Names(trace) == [i \in 1..Len(trace) |-> trace[i].e]

\* what the claim calls invalid: a ticker that is no non-empty string, an
\* expiration that is no date of the form YYYY-MM-DD, a strike that is no
\* number or lies outside [min_strike, max_strike], an option type that is
\* not 'call' or 'put' whatever its case
InvalidTicker(a) == a.ticker.t # "str" \/ a.ticker.s = ""
InvalidExpiration(a) == a.expiration.t # "str" \/ a.expiration.s \notin IsoDates
InvalidStrike(a) ==
    \/ ~IsNumeric(a.strike)
    \/ Lt(a.strike, min_strike)
    \/ Gt(a.strike, max_strike)
InvalidType(a) ==
    a.option_type \notin
        {Str("call"), Str("put"), Str("CALL"), Str("PUT"), Str("Call"), Str("Put")}
InvalidRequest(a) ==
    InvalidTicker(a) \/ InvalidExpiration(a) \/ InvalidStrike(a) \/ InvalidType(a)

\* C26: when the ticker, the expiration, the strike or the option type is
\* invalid, no attempt ever starts get_underlying_data, the option chain
\* fetch, calculate_greeks, get_volatility_metrics or get_volume_analysis,
\* and the call ends with an exception raised to the caller, after the
\* inputs were checked once on each of the three attempts
C26_RejectedBeforeRetrieval ==
    (Comprehensive /\ InvalidRequest(arg)) =>
        /\ \A i \in 1..Len(locals.trace) : locals.trace[i].e \notin RetrievalSteps
        /\ pc = "done" =>
              /\ ret.t = "raise"
              /\ Occurrences(locals.trace, "validate") = comprehensive_max_retries

\* an option type that is neither 'call' nor 'put', all else valid, is
\* rejected with "Invalid option type" on the third attempt
C26_Witness ==
    /\ Comprehensive /\ pc = "done"
    /\ arg.ticker = Str("SPY") /\ arg.expiration = Str("2024-01-19")
    /\ arg.strike = Num(100) /\ arg.option_type = Str("straddle")
    /\ ret = ValueError("Invalid option type")
    /\ locals.attempt = 2
    /\ Names(locals.trace) = <<"validate", "sleep", "validate", "sleep", "validate">>
    /\ locals.trace[2].secs = 2 /\ locals.trace[4].secs = 2

\* valid inputs pass the checks and the retrieval steps run
C26_ValidRequestRetrieves ==
    /\ Comprehensive /\ pc = "done" /\ ~InvalidRequest(arg)
    /\ arg.option_type = Str("PUT") /\ arg.strike = Rat(1, 10)
    /\ ret.t = "dict"
    /\ Names(locals.trace) =
          <<"validate", "get_underlying_data", "option_chain",
            "calculate_greeks", "get_volatility_metrics", "get_volume_analysis">>

\* an exception of valid inputs comes from a retrieval step, never from the
\* checks
C26_ValidRequestPassesChecks ==
    (Comprehensive /\ ~InvalidRequest(arg) /\ pc = "except") =>
        locals.trace[Len(locals.trace)].e \in {"get_underlying_data", "option_chain"}

---------------------------------------------------------------------------
(* Config: the configuration singleton of utils/config.py                  *)
(*                                                                         *)
(* The two YAML files are the environment: at a load each is unreadable    *)
(* (absent, or no YAML) or holds a document.  history remembers the one    *)
(* load the class performs and whether it completed; locals.loads counts   *)
(* the loads of the call in progress.                                      *)

\* a YAML mapping with the keys a caller asks for
Doc(options, risk) == [t |-> "dict", options |-> options, risk |-> risk]

\* what yaml.safe_load returns for logging.yaml and settings.yaml: None for
\* an empty file; Raise stands for open or safe_load raising
LoggingFiles == {Raise, NoneV, Doc(Missing, Missing)}
SettingsFiles ==
    {Raise, NoneV, Doc(Doc(Num(1), Missing), Missing),
     Doc(Doc(Missing, Num(2)), Str("low"))}

\* the object super().__new__(cls) creates
Instance == [t |-> "object", class |-> "Config"]

\* _load_config on the class dictionary config: logging is stored before
\* settings is opened; the handler of lines 35-37 re-raises
_load_config(config, logging_file, settings_file) ==
    IF logging_file.t = "raise" THEN [config |-> config, result |-> Raise]
    ELSE LET loaded == [config EXCEPT !.logging = logging_file]
         IN  IF settings_file.t = "raise"
             THEN [config |-> loaded, result |-> Raise]
             ELSE [config |-> [loaded EXCEPT !.settings = settings_file],
                   result |-> NoneV]

\* Config(): __new__ of lines 13-17.  _instance is assigned before
\* _load_config runs, so it stays assigned when the load raises
New ==
    /\ pc = "idle"
    /\ op' = "Config"
    /\ arg' = NoneV
    /\ pc' = "done"
    /\ IF _instance = NoneV
       THEN \E logging_file \in LoggingFiles, settings_file \in SettingsFiles :
               LET l == _load_config(_config, logging_file, settings_file)
               IN  /\ _instance' = Instance
                   /\ _config' = l.config
                   /\ history' = [op |-> "_load_config",
                                  completed |-> l.result.t # "raise"]
                   /\ ret' = IF l.result.t = "raise" THEN Raise ELSE Instance
                   /\ locals' = [loads |-> 1]
       ELSE /\ ret' = _instance
            /\ locals' = [loads |-> 0]
            /\ UNCHANGED <<_instance, _config, history>>
    /\ UNCHANGED <<strategies, thresholds>>

\* the sections, keys and defaults get is called with
Sections == {"logging", "settings", "storage"}
Keys == {NoneV, Str("options"), Str("risk")}
Defaults == {NoneV, Doc(Missing, Missing)}

\* lines 51-57 of get: the section, or the key of the section; any
\* exception gives the default
GetBody(config, section, key, default) ==
    IF key = NoneV THEN Get(config, section, default)
    ELSE Get(Get(config, section, Doc(Missing, Missing)), key.s, default)

GetExcept(r, default) == IF r.t = "raise" THEN default ELSE r

\* get(section, key, default) on the instance Config() has just returned
ConfigGet ==
    /\ pc = "done" /\ op = "Config" /\ ret.t = "object"
    /\ \E section \in Sections, key \in Keys, default \in Defaults :
          /\ arg' = [section |-> section, key |-> key, default |-> default]
          /\ ret' = GetExcept(GetBody(_config, section, key, default), default)
    /\ op' = "get"
    /\ UNCHANGED <<pc, strategies, thresholds, _instance, _config, history, locals>>

ConfigNext ==
    \/ New
    \/ ConfigGet
    \/ Return

ConfigSpec == Init /\ [][ConfigNext]_vars

---------------------------------------------------------------------------
(* Properties of Config *)

\* _load_config has run and completed without raising
Loaded == IF history = NoneV THEN FALSE ELSE history.completed

\* a Config() call has ended by handing an instance to its caller
Obtained == pc = "done" /\ op = "Config" /\ ret.t = "object"

\* C30: a caller obtains a Config instance only after _load_config has
\* completed successfully; a Config() that follows a failed load raises or
\* loads again, and a Config() that follows a completed load returns the
\* one instance without loading
C30_InstanceOnlyAfterLoad ==
    /\ Obtained => Loaded
    /\ (pc = "done" /\ op = "Config" /\ ~Loaded) =>
          ret.t = "raise" \/ locals.loads > 0
    /\ (Obtained /\ Loaded) => ret = _instance

\* what the code does after a failed load: the next Config() returns the
\* instance whose load raised, without loading, and its settings are the
\* defaults of the caller
C30_UnloadedSingleton ==
    /\ Obtained /\ ~Loaded /\ locals.loads = 0
    /\ ret = _instance /\ _config.settings = Missing

\* the part of C30 the code keeps: once a load has completed, Config()
\* returns the one instance and neither loads nor changes the class
C30_LoadedInstanceReused ==
    [][(pc = "idle" /\ Loaded /\ op' = "Config") =>
          /\ ret' = _instance /\ ret' = Instance
          /\ locals'.loads = 0
          /\ UNCHANGED <<_instance, _config, history>>]_vars

\* at most one load is ever made, and a completed one is the one that left
\* both sections in the class dictionary
C30_LoadedIffBothSections ==
    /\ Loaded <=> (_config.logging # Missing /\ _config.settings # Missing)
    /\ (_instance = NoneV) <=> (history = NoneV)

\* get on the unloaded singleton answers with the caller's default
C30_GetOnUnloaded ==
    /\ pc = "done" /\ op = "get" /\ ~Loaded
    /\ arg.section = "settings" /\ arg.key = Str("options")
    /\ arg.default = Doc(Missing, Missing) /\ ret = arg.default

====
